---- MODULE Spec2Model ----
(***************************************************************************)
(* The EtherNet/IP session and CIP connection state machine of cippy:     *)
(* EIPConnection (protocols/ethernetip/connection.py), CIPConnection      *)
(* (protocols/cip/connection.py) and CIPDriver (drivers/cip/driver.py).    *)
(*                                                                         *)
(* Every public call is one action.  What the device and the sockets do   *)
(* during the call (a refused TCP connect, a socket error while sending   *)
(* or receiving, the ENIP header status, the granted session handle, the  *)
(* CIP general status, the ids of a Forward Open reply) is an input of    *)
(* the action.  The two connection objects of a temporary route ("parent" *)
(* and "child") share one EIPConnection and one ConnectedConfig object    *)
(* and own one sequence generator each.                                    *)
(*                                                                         *)
(* The result of a call that is used more than once is bound once, as the  *)
(* one element of a singleton set:                                         *)
(*     CHOOSE out \in {F(r) : r \in {call}} : TRUE    is F(call).          *)
(***************************************************************************)
EXTENDS Integers, Sequences, FiniteSets, TLC

VARIABLES
    _connected,           \* EIPConnection._connected
    _session_id,          \* EIPConnection._session_id
    _sock,                \* EIPConnection._sock: "created", "connected" or "closed"
    connected_config,     \* the ConnectedConfig object (ids and serials)
    transport_class,      \* ConnectedConfig.transport_class
    _sequence_generator,  \* per CIPConnection object: the value next() yields next
    child,                \* TRUE while a temporary_route scope is active
    fresh,                \* per CIPConnection object: it has made no connected send
                          \* since its last successful forward_open
    negotiated,           \* the serials of the last Forward Open reply that was a success
    last,                 \* the call that was made last: what it did and how it ended
    root,                 \* a Struct value of the data type engine, with all it contains
    mutation,             \* the assignment made last on root or inside it, and how it ended
    segment,              \* a path segment, and what encoding and decoding it gave
    epath,                \* an EPATH of segments, and what encoding it gave
    receive,              \* EIPConnection._recv in progress: what it has read so far
    replaced,             \* a child of root that an assignment replaced, still held
    decoding,             \* Array._decode_all in progress: the stream and the elements
    response              \* a Message Router response, and how the parser read its status

vars == <<_connected, _session_id, _sock, connected_config, transport_class,
          _sequence_generator, child, fresh, negotiated, last, root, mutation,
          segment, epath, receive, replaced, decoding, response>>

----------------------------------------------------------------------------
\* Bounds of the model

\* session handles the device grants: 0..MaxSession
MaxSession == 1
\* O->T connection ids the target returns: 0..MaxConnId
MaxConnId == 1
\* T->O ids and serials the target returns: 0..MaxSerial
MaxSerial == 1
\* sequence numbers a connection object uses before it opens a new CIP connection
MaxSends == 2
\* bytes of a request body: 0..MaxBody
MaxBody == 1
\* bytes of the data of a reply to a connected send: 0..MaxData
MaxData == 3

----------------------------------------------------------------------------
\* Program constants

\* EtherNetIPStatus.Success
Success == 0
\* SUCCESS, the only member of the default success_statuses
SUCCESS == 0
\* cycle(65535, start=1): the stop and the start of the sequence generator
SeqStop == 65535
SeqStart == 1
\* UINT.size: the bytes of "<H"
UINT_size == 2

\* transport_class: Literal[0, 1, 2, 3]; class 0 and the default class 3 are run
\* (classes 1 and 2 take the branch of class 3: 0 < transport_class <= 3)
TransportClasses == {0, 3}
Conns == {"parent", "child"}

\* exception kinds; NoExc: the call returned
NoExc == "none"
\* wire events without a sequence number carry NoSeq
NoSeq == -1

\* no Struct value is under test, and no assignment was made
NoRoot == <<>>
NoMutation == [op |-> "none", key |-> "", exc |-> NoExc]
\* no path segment is under test
NoSegment == <<>>
\* no EPATH is held, nothing is being received, no child was replaced, no array
\* is being decoded and no response is being parsed
NoPath == <<>>
NoReceive == <<>>
NoReplaced == <<>>
NoDecoding == <<>>
NoResponse == <<>>

----------------------------------------------------------------------------
\* What the environment does during one request/response exchange.
\*   io: "ok", or where the socket fails: "send_err" (socket.error or timeout
\*       in sock.send), "recv_err" (in sock.recv), "decode_err" (the bytes
\*       received do not decode)
\*   status, session: the ENIP header of the reply
\*   general_status: the Message Router reply
\*   ids: the Forward Open reply

NoIds == [o2t |-> 0, t2o |-> 0, connection_serial |-> 0, originator_serial |-> 0]

\* the serials among the ids
Serials(ids) ==
    [connection_serial |-> ids.connection_serial,
     originator_serial |-> ids.originator_serial]

\* the ids of a Forward Open reply: the O->T id the target chose, and the T->O id
\* and the serials, which the code copies together
IdSet ==
    {[o2t |-> a, t2o |-> b, connection_serial |-> b, originator_serial |-> b] :
        a \in 0..MaxConnId, b \in 0..MaxSerial}

Exchange(io, status, session, general_status, ids) ==
    [io |-> io, status |-> status, session |-> session,
     general_status |-> general_status, ids |-> ids]

IoFailures ==
    {Exchange(io, 0, 0, 0, NoIds) : io \in {"send_err", "recv_err", "decode_err"}}

\* replies to RegisterSession: any header status, any session handle
RegisterReplies ==
    IoFailures \cup
    {Exchange("ok", st, s, 0, NoIds) : st \in {Success, 1}, s \in 0..MaxSession}

\* UnregisterSession has no reply: the send works or fails
UnregisterOutcomes ==
    {Exchange(io, 0, 0, 0, NoIds) : io \in {"ok", "send_err"}}

\* replies to a Message Router request carried by SendRRData / SendUnitData
RouterReplies ==
    IoFailures \cup
    {Exchange("ok", 1, 0, 0, NoIds)} \cup
    {Exchange("ok", Success, 0, gs, NoIds) : gs \in {SUCCESS, 1}}

\* replies to Forward Open
ForwardOpenReplies ==
    IoFailures \cup
    {Exchange("ok", 1, 0, 0, NoIds), Exchange("ok", Success, 0, 1, NoIds)} \cup
    {Exchange("ok", Success, 0, SUCCESS, i) : i \in IdSet}

NoExchange == Exchange("ok", 0, 0, 0, NoIds)

----------------------------------------------------------------------------
\* The program state as one value, and the result of a call

State ==
    [connected |-> _connected, session_id |-> _session_id, sock |-> _sock,
     cfg |-> connected_config, tc |-> transport_class,
     gen |-> _sequence_generator, fresh |-> fresh, negotiated |-> negotiated]

NoResp == [some |-> FALSE, status |-> 0, session |-> 0, general_status |-> 0, ids |-> NoIds]

Event(ev, seq) == [ev |-> ev, seq |-> seq]

\* the call raised exc in state s after putting wire on the wire
Raise(s, exc, wire) == [s |-> s, exc |-> exc, wire |-> wire, resp |-> NoResp]

\* the call returned resp in state s
Return(s, wire, resp) == [s |-> s, exc |-> NoExc, wire |-> wire, resp |-> resp]

\* EIPResponse.__bool__ (None is falsy)
EIPResponse_bool(resp) == resp.some /\ resp.status = Success

\* CIPResponse.__bool__
CIPResponse_bool(resp) == resp.general_status \in {SUCCESS}

----------------------------------------------------------------------------
\* EIPConnection

\* EIPConnection.connected
EIP_connected(s) == s.session_id # 0 /\ s.connected

\* EIPConnection._send: the send loop ends or a socket error becomes ConnectionError
_send(e) == IF e.io = "send_err" THEN "ConnectionError" ELSE NoExc

\* EIPConnection._recv_size: as _send, for sock.recv
_recv_size(e) == IF e.io = "recv_err" THEN "ConnectionError" ELSE NoExc

\* EIPConnection._recv: header and body are read, then decoded
_recv(e) ==
    IF _recv_size(e) # NoExc THEN _recv_size(e)
    ELSE IF e.io = "decode_err" THEN "DataError"
    ELSE NoExc

\* EIPConnection.send; command is the encapsulation command, ev what the message is
EIP_send(s, command, ev, has_response, e) ==
    IF ~s.connected THEN Raise(s, "ConnectionError", <<>>)
    ELSE IF command # "RegisterSession" /\ s.session_id = 0
    THEN Raise(s, "ConnectionError", <<>>)
    ELSE IF _send(e) # NoExc THEN Raise(s, _send(e), <<ev>>)
    ELSE IF ~has_response THEN Return(s, <<ev>>, NoResp)
    ELSE IF _recv(e) # NoExc THEN Raise(s, _recv(e), <<ev>>)
    ELSE Return(s, <<ev>>,
                [some |-> TRUE, status |-> e.status, session |-> e.session,
                 general_status |-> e.general_status, ids |-> e.ids])

\* EIPConnection.register_session
register_session(s, e) ==
    IF s.session_id # 0 THEN Raise(s, "ConnectionError", <<>>)
    ELSE CHOOSE out \in
        {IF r.exc # NoExc THEN r
         ELSE IF EIPResponse_bool(r.resp)
         THEN Return([s EXCEPT !.session_id = r.resp.session], r.wire, NoResp)
         ELSE Return(s, r.wire, NoResp)
         : r \in {EIP_send(s, "RegisterSession", Event("RegisterSession", NoSeq), TRUE, e)}}
        : TRUE

\* EIPConnection.unregister_session
unregister_session(s, e) ==
    IF s.session_id = 0 THEN Raise(s, "ConnectionError", <<>>)
    ELSE CHOOSE out \in
        {IF r.exc # NoExc THEN r
         ELSE Return([s EXCEPT !.session_id = 0], r.wire, NoResp)
         : r \in {EIP_send(s, "UnregisterSession", Event("UnregisterSession", NoSeq), FALSE, e)}}
        : TRUE

\* EIPConnection._create_socket, assigned to _sock
_create_socket(s) == [s EXCEPT !.sock = "created"]

\* EIPConnection.connect
EIP_connect(s, tcp_ok, e) ==
    IF ~tcp_ok
    THEN Raise([_create_socket(s) EXCEPT !.connected = FALSE], "ConnectionError", <<>>)
    ELSE CHOOSE out \in
        {IF r.exc # NoExc
         THEN Raise([r.s EXCEPT !.connected = FALSE, !.session_id = 0],
                    "ConnectionError", <<Event("TcpConnect", NoSeq)>> \o r.wire)
         ELSE Return(r.s, <<Event("TcpConnect", NoSeq)>> \o r.wire, NoResp)
         : r \in {register_session([_create_socket(s) EXCEPT !.sock = "connected",
                                                            !.connected = TRUE,
                                                            !.session_id = 0], e)}}
        : TRUE

\* EIPConnection.disconnect without `self._session_id = 0` in the except branch
\* and with `self._connected = False` only after a close that worked
EIP_disconnect_no_cleanup(s, e, close_ok) ==
    IF ~s.connected THEN Return(s, <<>>, NoResp)
    ELSE CHOOSE out \in
        {IF close_ok
         THEN Return([r.s EXCEPT !.sock = "closed", !.connected = FALSE],
                     r.wire \o <<Event("TcpClose", NoSeq)>>, NoResp)
         ELSE Raise([r.s EXCEPT !.sock = "closed"],
                    "ConnectionError", r.wire \o <<Event("TcpClose", NoSeq)>>)
         : r \in {IF s.session_id # 0 THEN unregister_session(s, e)
                  ELSE Return(s, <<>>, NoResp)}}
        : TRUE

\* EIPConnection.disconnect
EIP_disconnect(s, e, close_ok) ==
    IF ~s.connected THEN Return(s, <<>>, NoResp)
    ELSE CHOOSE out \in
        {IF close_ok
         THEN Return([r.s EXCEPT !.session_id = 0, !.sock = "closed", !.connected = FALSE],
                     r.wire \o <<Event("TcpClose", NoSeq)>>, NoResp)
         ELSE Raise([r.s EXCEPT !.session_id = 0, !.sock = "closed", !.connected = FALSE],
                    "ConnectionError", r.wire \o <<Event("TcpClose", NoSeq)>>)
         : r \in {IF s.session_id # 0 THEN unregister_session(s, e)
                  ELSE Return(s, <<>>, NoResp)}}
        : TRUE

\* EIPConnection.send_rr_data
send_rr_data(s, ev, e) ==
    IF ~EIP_connected(s) THEN Raise(s, "ConnectionError", <<>>)
    ELSE EIP_send(s, "SendRRData", ev, TRUE, e)

\* EIPConnection.send_unit_data
send_unit_data(s, ev, e) ==
    IF ~EIP_connected(s) THEN Raise(s, "ConnectionError", <<>>)
    ELSE EIP_send(s, "SendUnitData", ev, TRUE, e)

----------------------------------------------------------------------------
\* CIPConnection

\* util.cycle(stop, start): a fresh generator; its state is the value next() yields
cycle(stop, start) == start

\* next() on a generator of cycle(stop, start) in state g: the state after the yield of g
cycle_next(stop, start, g) == IF g + 1 < stop THEN g + 1 ELSE start

\* CIPConnection.connected
CIP_connected(s) == EIP_connected(s)

\* CIPConnection.cip_connected
cip_connected(s) == CIP_connected(s) /\ s.cfg.o2t # 0

\* is_connected raising another kind of exception than ConnectionError
is_connected_other_kind(s) == IF ~CIP_connected(s) THEN "CippyError" ELSE NoExc

\* the is_connected decorator: what it raises before the call
is_connected(s) == IF ~CIP_connected(s) THEN "ConnectionError" ELSE NoExc

\* the is_cip_connected decorator: is_connected around the cip_connected test
is_cip_connected(s) ==
    IF is_connected(s) # NoExc THEN is_connected(s)
    ELSE IF ~cip_connected(s) THEN "ConnectionError"
    ELSE NoExc

\* CIPConnection.connect
CIP_connect(s, tcp_ok, e) ==
    IF CIP_connected(s) THEN Raise(s, "ConnectionError", <<>>)
    ELSE EIP_connect(s, tcp_ok, e)

\* CIPConnection.disconnect
CIP_disconnect(s, e, close_ok) ==
    IF ~CIP_connected(s) THEN Raise(s, "ConnectionError", <<>>)
    ELSE EIP_disconnect(s, e, close_ok)

\* forward_open storing the ids of the reply before it looks at the statuses
forward_open_stores_first(s, c, e) ==
    IF is_connected(s) # NoExc THEN Raise(s, is_connected(s), <<>>)
    ELSE IF cip_connected(s) THEN Raise(s, "ConnectionError", <<>>)
    ELSE CHOOSE out \in
        {IF r.exc # NoExc THEN r
         ELSE IF EIPResponse_bool(r.resp)
         THEN IF CIPResponse_bool(r.resp)
              THEN Return([s EXCEPT !.cfg = r.resp.ids,
                                    !.gen[c] = cycle(SeqStop, SeqStart),
                                    !.fresh[c] = TRUE,
                                    !.negotiated = Serials(r.resp.ids)],
                          r.wire, r.resp)
              ELSE Raise([s EXCEPT !.cfg = r.resp.ids], "ConnectionError", r.wire)
         ELSE Raise([s EXCEPT !.cfg = r.resp.ids], "ResponseError", r.wire)
         : r \in {send_rr_data(s, Event("ForwardOpen", NoSeq), e)}}
        : TRUE

\* forward_open without `self._sequence_generator = cycle(65535, start=1)`
forward_open_no_reset(s, c, e) ==
    IF is_connected(s) # NoExc THEN Raise(s, is_connected(s), <<>>)
    ELSE IF cip_connected(s) THEN Raise(s, "ConnectionError", <<>>)
    ELSE CHOOSE out \in
        {IF r.exc # NoExc THEN r
         ELSE IF EIPResponse_bool(r.resp)
         THEN IF CIPResponse_bool(r.resp)
              THEN Return([s EXCEPT !.cfg = r.resp.ids, !.fresh[c] = TRUE,
                                    !.negotiated = Serials(r.resp.ids)],
                          r.wire, r.resp)
              ELSE Raise(s, "ConnectionError", r.wire)
         ELSE Raise(s, "ResponseError", r.wire)
         : r \in {send_rr_data(s, Event("ForwardOpen", NoSeq), e)}}
        : TRUE

\* CIPConnection.forward_open, called on connection object c
forward_open(s, c, e) ==
    IF is_connected(s) # NoExc THEN Raise(s, is_connected(s), <<>>)
    ELSE IF cip_connected(s) THEN Raise(s, "ConnectionError", <<>>)
    ELSE CHOOSE out \in
        {IF r.exc # NoExc THEN r
         ELSE IF EIPResponse_bool(r.resp)
         THEN IF CIPResponse_bool(r.resp)
              THEN Return([s EXCEPT !.cfg = r.resp.ids,
                                    !.gen[c] = cycle(SeqStop, SeqStart),
                                    !.fresh[c] = TRUE,
                                    !.negotiated = Serials(r.resp.ids)],
                          r.wire, r.resp)
              ELSE Raise(s, "ConnectionError", r.wire)
         ELSE Raise(s, "ResponseError", r.wire)
         : r \in {send_rr_data(s, Event("ForwardOpen", NoSeq), e)}}
        : TRUE

\* the Forward Close request as it is written: ForwardCloseRequest with the
\* connection_serial and originator_serial of the ConnectedConfig
ForwardCloseEvent(s) ==
    [ev |-> "ForwardClose", seq |-> NoSeq,
     connection_serial |-> s.cfg.connection_serial,
     originator_serial |-> s.cfg.originator_serial]

\* forward_close clearing the two connection ids only, not the serials
forward_close_keeps_serials(s, e) ==
    IF is_cip_connected(s) # NoExc THEN Raise(s, is_cip_connected(s), <<>>)
    ELSE CHOOSE out \in
        {IF r.exc # NoExc THEN r
         ELSE IF EIPResponse_bool(r.resp)
         THEN IF CIPResponse_bool(r.resp)
              THEN Return([s EXCEPT !.cfg.o2t = 0, !.cfg.t2o = 0], r.wire, r.resp)
              ELSE Raise(s, "ConnectionError", r.wire)
         ELSE Raise(s, "ResponseError", r.wire)
         : r \in {send_rr_data(s, ForwardCloseEvent(s), e)}}
        : TRUE

\* CIPConnection.forward_close
forward_close(s, e) ==
    IF is_cip_connected(s) # NoExc THEN Raise(s, is_cip_connected(s), <<>>)
    ELSE CHOOSE out \in
        {IF r.exc # NoExc THEN r
         ELSE IF EIPResponse_bool(r.resp)
         THEN IF CIPResponse_bool(r.resp)
              THEN Return([s EXCEPT !.cfg = NoIds], r.wire, r.resp)
              ELSE Raise(s, "ConnectionError", r.wire)
         ELSE Raise(s, "ResponseError", r.wire)
         : r \in {send_rr_data(s, ForwardCloseEvent(s), e)}}
        : TRUE

\* CIPConnection.unconnected_send
unconnected_send(s, e) ==
    IF is_connected(s) # NoExc THEN Raise(s, is_connected(s), <<>>)
    ELSE CHOOSE out \in
        {IF r.exc # NoExc THEN r
         ELSE IF EIPResponse_bool(r.resp) THEN r
         ELSE Raise(s, "ResponseError", r.wire)
         : r \in {send_rr_data(s, Event("UnconnectedSend", NoSeq), e)}}
        : TRUE

\* has_seq_id that leaves out transport class 3
has_seq_id_below_3(s) == 0 < s.tc /\ s.tc < 3

\* has_seq_id of CIPConnection._connected_send
has_seq_id(s) == 0 < s.tc /\ s.tc <= 3

\* CIPConnection._connected_send, called on connection object c: the sequence number
\* is taken from the generator before the send
_connected_send(s, c, e) ==
    IF is_cip_connected(s) # NoExc THEN Raise(s, is_cip_connected(s), <<>>)
    ELSE CHOOSE out \in
        {IF r.exc # NoExc THEN Raise([r.s EXCEPT !.fresh[c] = FALSE], r.exc, r.wire)
         ELSE IF EIPResponse_bool(r.resp)
         THEN Return([r.s EXCEPT !.fresh[c] = FALSE], r.wire, r.resp)
         ELSE Raise([r.s EXCEPT !.fresh[c] = FALSE], "ResponseError", r.wire)
         : r \in {send_unit_data(
                    IF has_seq_id(s)
                    THEN [s EXCEPT !.gen[c] = cycle_next(SeqStop, SeqStart, s.gen[c])]
                    ELSE s,
                    Event("ConnectedSend", IF has_seq_id(s) THEN s.gen[c] ELSE NoSeq),
                    e)}}
        : TRUE

\* UINT.encode: pack("<H", n), the low byte first
UINT_encode(n) == <<n % 256, (n \div 256) % 256>>

\* UINT.decode of the first UINT.size bytes of data
UINT_decode(data) == data[1] + 256 * data[2]

\* encoded_msg of _connected_send: the bytes handed to send_unit_data for request
\* bytes body
encoded_msg(s, c, body) ==
    IF has_seq_id(s) THEN UINT_encode(s.gen[c]) \o body ELSE body

\* resp_seq_id of _connected_send, for the data of the reply
resp_seq_id(s, data) ==
    IF has_seq_id(s) THEN UINT_decode(SubSeq(data, 1, UINT_size)) ELSE NoSeq

\* resp_data of _connected_send as the parser gets it
resp_data(s, data) ==
    IF has_seq_id(s) THEN SubSeq(data, UINT_size + 1, Len(data)) ELSE data

\* the bytes of a connected send that sent nothing or got no reply to parse
NoUnit == [body |-> <<>>, sent |-> <<>>, data |-> <<>>, resp_seq_id |-> NoSeq,
           parsed |-> <<>>]

\* CIPConnection._connected_send with its bytes: body is bytes(request.message), data
\* the data of the reply e.  UINT.decode of no bytes raises BufferEmptyError, of
\* one byte DataError.
_connected_send_bytes(s, c, body, e, data) ==
    CHOOSE out \in
        {IF r.wire = <<>>
         THEN [s |-> r.s, exc |-> r.exc, wire |-> r.wire, unit |-> NoUnit]
         ELSE IF r.exc # NoExc
         THEN [s |-> r.s, exc |-> r.exc, wire |-> r.wire,
               unit |-> [NoUnit EXCEPT !.body = body, !.sent = encoded_msg(s, c, body)]]
         ELSE IF has_seq_id(s) /\ Len(data) < UINT_size
         THEN [s |-> r.s,
               exc |-> IF data = <<>> THEN "BufferEmptyError" ELSE "DataError",
               wire |-> r.wire,
               unit |-> [NoUnit EXCEPT !.body = body, !.sent = encoded_msg(s, c, body),
                                       !.data = data]]
         ELSE [s |-> r.s, exc |-> r.exc, wire |-> r.wire,
               unit |-> [body |-> body, sent |-> encoded_msg(s, c, body), data |-> data,
                         resp_seq_id |-> resp_seq_id(s, data),
                         parsed |-> resp_data(s, data)]]
         : r \in {_connected_send(s, c, e)}}
        : TRUE

\* send that looks at the state only, whatever the flag
CIP_send_flag_ignored(s, c, flag, e) ==
    IF cip_connected(s) THEN _connected_send(s, c, e) ELSE unconnected_send(s, e)

\* CIPConnection.send; flag is the cip_connected argument: "None", "True" or "False"
CIP_send(s, c, flag, e) ==
    IF (flag = "None" /\ cip_connected(s)) \/ flag = "True"
    THEN _connected_send(s, c, e)
    ELSE unconnected_send(s, e)

----------------------------------------------------------------------------
\* CIPDriver

\* CIPDriver.open on the driver of connection object c
open(s, c, cip, tcp_ok, e_reg, e_fo) ==
    CHOOSE out \in
        {IF r1.exc # NoExc THEN r1
         ELSE IF cip /\ ~cip_connected(r1.s)
         THEN CHOOSE out2 \in
                {IF r2.exc # NoExc
                 THEN Raise(r2.s, "ConnectionError", r1.wire \o r2.wire)
                 ELSE Return(r2.s, r1.wire \o r2.wire, NoResp)
                 : r2 \in {forward_open(r1.s, c, e_fo)}}
                : TRUE
         ELSE r1
         : r1 \in {IF ~CIP_connected(s) THEN CIP_connect(s, tcp_ok, e_reg)
                   ELSE Return(s, <<>>, NoResp)}}
        : TRUE

\* CIPDriver.close without the try around forward_close(): its exception ends close()
close_no_try(s, e_fc, e_unreg, close_ok) ==
    CHOOSE out \in
        {IF r1.exc # NoExc THEN r1
         ELSE CHOOSE out2 \in
            {[r2 EXCEPT !.wire = r1.wire \o r2.wire]
             : r2 \in {IF CIP_connected(r1.s) THEN CIP_disconnect(r1.s, e_unreg, close_ok)
                       ELSE Return(r1.s, <<>>, NoResp)}}
            : TRUE
         : r1 \in {IF cip_connected(s) THEN forward_close(s, e_fc)
                   ELSE Return(s, <<>>, NoResp)}}
        : TRUE

\* CIPDriver.close: an exception of forward_close() is logged, not raised
close(s, e_fc, e_unreg, close_ok) ==
    CHOOSE out \in
        {CHOOSE out2 \in
            {[r2 EXCEPT !.wire = r1.wire \o r2.wire]
             : r2 \in {IF CIP_connected(r1.s) THEN CIP_disconnect(r1.s, e_unreg, close_ok)
                       ELSE Return(r1.s, <<>>, NoResp)}}
            : TRUE
         : r1 \in {IF cip_connected(s) THEN forward_close(s, e_fc)
                   ELSE Return(s, <<>>, NoResp)}}
        : TRUE

\* CIPDriver.__enter__
__enter__(s, c, tcp_ok, e_reg) ==
    IF ~CIP_connected(s) THEN open(s, c, FALSE, tcp_ok, e_reg, NoExchange)
    ELSE Return(s, <<>>, NoResp)

\* CIPDriver.__exit__: a ConnectionError of close() is logged, not raised
__exit__(s, e_fc, e_unreg, close_ok) ==
    CHOOSE out \in
        {IF r.exc = "ConnectionError" THEN Return(r.s, r.wire, NoResp) ELSE r
         : r \in {close(s, e_fc, e_unreg, close_ok)}}
        : TRUE

\* CIPDriver.temporary_route up to the yield: the child connection is built on the
\* parent's transport and ConnectedConfig, its driver opened and entered
temporary_route(s, cip, tcp_ok, e_reg, e_fo, tcp_ok2, e_reg2) ==
    CHOOSE out \in
        {IF r1.exc # NoExc THEN r1
         ELSE CHOOSE out2 \in
                {[r2 EXCEPT !.wire = r1.wire \o r2.wire]
                 : r2 \in {__enter__(r1.s, "child", tcp_ok2, e_reg2)}}
                : TRUE
         : r1 \in {open([s EXCEPT !.gen["child"] = cycle(SeqStop, SeqStart),
                                  !.fresh["child"] = FALSE],
                        "child", cip, tcp_ok, e_reg, e_fo)}}
        : TRUE

----------------------------------------------------------------------------
\* The state machine

\* what a call leaves in `last`: pre is the state it was made in, first whether
\* connection object c had made no connected send since its last forward open
Call(op, c, flag, r, e1, e2) ==
    [op |-> op, conn |-> c, flag |-> flag, exc |-> r.exc, wire |-> r.wire,
     e1 |-> e1, e2 |-> e2, first |-> fresh[c],
     pre |-> [connected |-> EIP_connected(State), session_id |-> _session_id,
              cfg |-> connected_config, negotiated |-> negotiated]]

\* the state r.s becomes the program's state
Commit(r) ==
    /\ _connected' = r.s.connected
    /\ _session_id' = r.s.session_id
    /\ _sock' = r.s.sock
    /\ connected_config' = r.s.cfg
    /\ _sequence_generator' = r.s.gen
    /\ fresh' = r.s.fresh
    /\ negotiated' = r.s.negotiated
    /\ UNCHANGED <<transport_class, root, mutation, segment, epath, receive, replaced,
                   decoding, response>>

\* the child connection object is dropped with its scope
Gone(r) ==
    [r EXCEPT !.s.gen["child"] = cycle(SeqStop, SeqStart), !.s.fresh["child"] = FALSE]

\* the connection objects that exist
Live == IF child THEN Conns ELSE {"parent"}

\* connection object c may make one more connected send
MaySend(c) == _sequence_generator[c] <= MaxSends

\* the exchanges a call in this state can need
IfThen(cond, set) == IF cond THEN set ELSE {NoExchange}

\* EIPConnection.__init__, CIPConnection.__init__, ConnectedConfig defaults
Init ==
    /\ _connected = FALSE
    /\ _session_id = 0
    /\ _sock = "created"
    /\ connected_config = NoIds
    /\ transport_class \in TransportClasses
    /\ _sequence_generator = [c \in Conns |-> cycle(SeqStop, SeqStart)]
    /\ fresh = [c \in Conns |-> FALSE]
    /\ child = FALSE
    /\ negotiated = Serials(NoIds)
    /\ last = [op |-> "init", conn |-> "parent", flag |-> "None", exc |-> NoExc,
               wire |-> <<>>, e1 |-> NoExchange, e2 |-> NoExchange, first |-> FALSE,
               pre |-> [connected |-> FALSE, session_id |-> 0, cfg |-> NoIds,
                        negotiated |-> Serials(NoIds)]]
    /\ root = NoRoot
    /\ mutation = NoMutation
    /\ segment = NoSegment
    /\ epath = NoPath
    /\ receive = NoReceive
    /\ replaced = NoReplaced
    /\ decoding = NoDecoding
    /\ response = NoResponse

\* connection.connect()
Connect ==
    \E tcp_ok \in BOOLEAN :
    \E e \in IfThen(tcp_ok /\ ~CIP_connected(State), RegisterReplies) :
    \E r \in {CIP_connect(State, tcp_ok, e)} :
       /\ Commit(r)
       /\ last' = Call("connect", "parent", IF tcp_ok THEN "ok" ELSE "refused", r, e, NoExchange)
       /\ UNCHANGED child

\* the transport's own connect(), which a caller may invoke in any state
TransportConnect ==
    \E tcp_ok \in BOOLEAN :
    \E e \in IfThen(tcp_ok, RegisterReplies) :
    \E r \in {EIP_connect(State, tcp_ok, e)} :
       /\ Commit(r)
       /\ last' = Call("transport.connect", "parent",
                       IF tcp_ok THEN "ok" ELSE "refused", r, e, NoExchange)
       /\ UNCHANGED child

\* connection.disconnect()
Disconnect ==
    \E close_ok \in IF CIP_connected(State) THEN BOOLEAN ELSE {TRUE} :
    \E e \in IfThen(CIP_connected(State), UnregisterOutcomes) :
    \E r \in {CIP_disconnect(State, e, close_ok)} :
       /\ Commit(r)
       /\ last' = Call("disconnect", "parent", IF close_ok THEN "ok" ELSE "close_err",
                       r, e, NoExchange)
       /\ UNCHANGED child

\* connection.forward_open()
ForwardOpen ==
    \E c \in Live :
    \E e \in IfThen(CIP_connected(State) /\ ~cip_connected(State), ForwardOpenReplies) :
    \E r \in {forward_open(State, c, e)} :
       /\ Commit(r)
       /\ last' = Call("forward_open", c, "None", r, e, NoExchange)
       /\ UNCHANGED child

\* connection.forward_close()
ForwardClose ==
    \E c \in Live :
    \E e \in IfThen(cip_connected(State), RouterReplies) :
    \E r \in {forward_close(State, e)} :
       /\ Commit(r)
       /\ last' = Call("forward_close", c, "None", r, e, NoExchange)
       /\ UNCHANGED child

\* connection.send(request, cip_connected=flag)
Send ==
    \E c \in Live, flag \in {"None", "True", "False"} :
    \E e \in IfThen(CIP_connected(State), RouterReplies) :
    \E r \in {CIP_send(State, c, flag, e)} :
       /\ MaySend(c)
       /\ Commit(r)
       /\ last' = Call("send", c, flag, r, e, NoExchange)
       /\ UNCHANGED child

\* connection.unconnected_send(request)
UnconnectedSend ==
    \E e \in IfThen(CIP_connected(State), RouterReplies) :
    \E r \in {unconnected_send(State, e)} :
       /\ Commit(r)
       /\ last' = Call("unconnected_send", "parent", "None", r, e, NoExchange)
       /\ UNCHANGED child

\* transport.send_rr_data(msg) and transport.send_unit_data(connection_id, msg)
TransportSend ==
    \E op \in {"send_rr_data", "send_unit_data"} :
    \E e \in IfThen(EIP_connected(State), RouterReplies) :
    \E r \in {IF op = "send_rr_data"
              THEN send_rr_data(State, Event("Request", NoSeq), e)
              ELSE send_unit_data(State, Event("Request", NoSeq), e)} :
       /\ Commit(r)
       /\ last' = Call(op, "parent", "None", r, e, NoExchange)
       /\ UNCHANGED child

\* driver.open(cip_connected=cip) on the parent's driver
DriverOpen ==
    \E cip \in BOOLEAN, tcp_ok \in IF CIP_connected(State) THEN {TRUE} ELSE BOOLEAN :
    \E e_reg \in IfThen(tcp_ok /\ ~CIP_connected(State), RegisterReplies) :
    \E r1 \in {open(State, "parent", FALSE, tcp_ok, e_reg, NoExchange)} :
    \E e_fo \in IfThen(cip /\ r1.exc = NoExc /\ CIP_connected(r1.s) /\ ~cip_connected(r1.s),
                     ForwardOpenReplies) :
    \E r \in {open(State, "parent", cip, tcp_ok, e_reg, e_fo)} :
       /\ Commit(r)
       /\ last' = Call("open", "parent", IF cip THEN "True" ELSE "False", r, e_reg, e_fo)
       /\ UNCHANGED child

\* leaving the parent driver's scope: driver.__exit__(), which is driver.close()
DriverExit ==
    \E close_ok \in IF CIP_connected(State) THEN BOOLEAN ELSE {TRUE} :
    \E e_fc \in IfThen(cip_connected(State), RouterReplies) :
    \E e_unreg \in IfThen(CIP_connected(State), UnregisterOutcomes) :
    \E r \in {__exit__(State, e_fc, e_unreg, close_ok)} :
       /\ Commit(r)
       /\ last' = Call("__exit__", "parent", IF close_ok THEN "ok" ELSE "close_err",
                       r, e_fc, e_unreg)
       /\ UNCHANGED child

\* entering driver.temporary_route(route, cip_connected=cip) of a connected parent
TemporaryRouteEnter ==
    /\ ~child
    /\ CIP_connected(State)
    /\ \E cip \in BOOLEAN :
       \E e_fo \in IfThen(cip /\ ~cip_connected(State), ForwardOpenReplies) :
       \E r \in {temporary_route(State, cip, TRUE, NoExchange, e_fo, TRUE, NoExchange)} :
          /\ Commit(r)
          /\ child' = (r.exc = NoExc)
          /\ last' = Call("temporary_route", "child", IF cip THEN "True" ELSE "False",
                          r, e_fo, NoExchange)

\* leaving the temporary_route scope: the child driver's __exit__()
TemporaryRouteExit ==
    /\ child
    /\ \E close_ok \in IF CIP_connected(State) THEN BOOLEAN ELSE {TRUE} :
       \E e_fc \in IfThen(cip_connected(State), RouterReplies) :
       \E e_unreg \in IfThen(CIP_connected(State), UnregisterOutcomes) :
       \E r \in {__exit__(State, e_fc, e_unreg, close_ok)} :
          /\ Commit(Gone(r))
          /\ child' = FALSE
          /\ last' = Call("temporary_route.exit", "child",
                          IF close_ok THEN "ok" ELSE "close_err", r, e_fc, e_unreg)

Next ==
    \/ Connect
    \/ TransportConnect
    \/ Disconnect
    \/ ForwardOpen
    \/ ForwardClose
    \/ Send
    \/ UnconnectedSend
    \/ TransportSend
    \/ DriverOpen
    \/ DriverExit
    \/ TemporaryRouteEnter
    \/ TemporaryRouteExit

Spec == Init /\ [][Next]_vars

----------------------------------------------------------------------------
\* Properties

\* the calls that send a request on the connection
SendOps ==
    {"send", "unconnected_send", "send_rr_data", "send_unit_data",
     "forward_open", "forward_close"}

\* the calls that end in EIPConnection.disconnect()
DisconnectOps == {"disconnect", "__exit__", "temporary_route.exit"}

\* the last call wrote a request and the socket failed in sock.send or sock.recv
TransportFailed == last.wire # <<>> /\ last.e1.io \in {"send_err", "recv_err"}

\* the names of the wire events of the last call, in order
WireNames == [i \in 1..Len(last.wire) |-> last.wire[i].ev]

\* C1: a socket error or timeout while sending or receiving on a registered
\* connection raises ConnectionError and leaves the connection Closed: connected
\* false, session_id 0, the CIP connection ids 0.
C1_TransportErrorCloses ==
    (last.op \in SendOps /\ last.pre.connected /\ TransportFailed)
        => /\ last.exc = "ConnectionError"
           /\ ~_connected
           /\ _session_id = 0
           /\ connected_config.o2t = 0
           /\ connected_config.t2o = 0

\* C2: closing the child of a temporary route leaves the parent's session as it
\* was: still connected, session_id unchanged and non-zero, the socket open.
C2_ChildCloseKeepsParent ==
    (last.op = "temporary_route.exit" /\ last.pre.connected)
        => /\ _connected
           /\ _session_id = last.pre.session_id
           /\ _session_id # 0
           /\ _sock = "connected"

\* C3: whenever connect() returns without raising, whatever the RegisterSession
\* reply was, session_id is non-zero and connected is true.
C3_ConnectReturnsRegistered ==
    (last.op \in {"connect", "transport.connect"} /\ last.exc = NoExc)
        => _session_id # 0 /\ _connected

\* C4: whenever connect() raises, from whatever state it was called, the
\* connection is Closed afterwards: the TCP-connected flag false and session_id 0.
C4_ConnectRaisesClosed ==
    (last.op \in {"connect", "transport.connect"} /\ last.exc # NoExc)
        => ~_connected /\ _session_id = 0

\* C5: after disconnect() on a registered connection session_id is 0 and
\* connected is false, whether UnregisterSession is sent or fails and whether
\* the socket close works or raises.
C5_DisconnectClears ==
    (last.op \in DisconnectOps /\ last.pre.connected)
        => _session_id = 0 /\ ~_connected /\ ~EIP_connected(State)

\* C5 witness: a disconnect() of a registered connection whose UnregisterSession
\* could not be sent and whose socket close raised.
C5_Witness ==
    /\ last.op = "disconnect"
    /\ last.pre.connected
    /\ last.e1.io = "send_err"
    /\ last.flag = "close_err"
    /\ last.exc = "ConnectionError"
    /\ _session_id = 0
    /\ ~_connected

\* C6: on a connection that is not connected every send attempt raises
\* ConnectionError and writes nothing: send() with cip_connected None, True or
\* False, unconnected_send, forward_open, forward_close, send_rr_data and
\* send_unit_data.
C6_ClosedSendsNothing ==
    (last.op \in SendOps /\ ~last.pre.connected)
        => last.exc = "ConnectionError" /\ last.wire = <<>>

\* C6 witness: send(cip_connected=True) on a connection that was disconnected
\* with a CIP connection id still set.
C6_Witness ==
    /\ last.op = "send"
    /\ last.flag = "True"
    /\ ~last.pre.connected
    /\ last.pre.cfg.o2t # 0
    /\ _sock = "closed"
    /\ last.exc = "ConnectionError"
    /\ last.wire = <<>>

\* C7: disconnect() on a CIP-connected connection attempts Forward Close before
\* UnregisterSession, attempts UnregisterSession, and closes the socket.
C7_DisconnectForwardCloses ==
    (last.op = "disconnect" /\ last.pre.connected /\ last.pre.cfg.o2t # 0)
        => /\ WireNames = <<"ForwardClose", "UnregisterSession", "TcpClose">>
           /\ _sock = "closed"

\* C8: leaving the driver's scope (__exit__, which is close()) on a CIP-connected
\* connection issues Forward Close, then UnregisterSession, then the TCP close, in
\* this order; their failures are suppressed and the socket is closed in every case.
C8_DriverExitOrder ==
    (last.op \in {"__exit__", "temporary_route.exit"}
        /\ last.pre.connected /\ last.pre.cfg.o2t # 0)
        => /\ WireNames = <<"ForwardClose", "UnregisterSession", "TcpClose">>
           /\ last.exc = NoExc
           /\ _sock = "closed"
           /\ ~_connected

\* C8 witness: a driver exit from CIP-connected in which the Forward Close, the
\* UnregisterSession and the socket close all failed.
C8_Witness ==
    /\ last.op = "__exit__"
    /\ last.pre.connected
    /\ last.pre.cfg.o2t # 0
    /\ last.e1.io = "send_err"
    /\ last.e2.io = "send_err"
    /\ last.flag = "close_err"
    /\ last.exc = NoExc
    /\ _sock = "closed"

\* the last call was a forward_open() on a registered connection whose request
\* was answered with a failure: ENIP header status non-zero, or CIP general
\* status not success
ForwardOpenRefused ==
    /\ last.op = "forward_open"
    /\ last.pre.connected
    /\ last.wire # <<>>
    /\ last.e1.io = "ok"
    /\ (last.e1.status # Success \/ last.e1.general_status # SUCCESS)

\* the connection is registered as before the last call, ids and serials unchanged
StaysRegistered ==
    /\ _connected
    /\ _session_id = last.pre.session_id
    /\ _session_id # 0
    /\ connected_config = last.pre.cfg

FirstSequencedSend ==
    /\ last.op = "send"
    /\ last.first
    /\ last.wire # <<>>
    /\ last.wire[1].ev = "ConnectedSend"
    /\ last.wire[1].seq # NoSeq

\* C10: after a successful forward_open() o2t_connection_id is the O->T id of the
\* reply, and the sequence counter is reset: the first connected send the
\* connection object makes after it carries sequence number 1.
C10_ForwardOpenResets ==
    /\ (last.op = "forward_open" /\ last.exc = NoExc)
            => /\ connected_config.o2t = last.e1.ids.o2t
               /\ fresh[last.conn]
               /\ _sequence_generator[last.conn] = SeqStart
    /\ FirstSequencedSend => last.wire[1].seq = 1

\* C10 witness: the first connected send after a forward open went out with
\* sequence number 1 on the O->T id of the reply, and the generator has moved to 2.
C10_Witness ==
    /\ FirstSequencedSend
    /\ last.wire[1].seq = 1
    /\ last.exc = NoExc
    /\ _sequence_generator[last.conn] = 2
    /\ connected_config.o2t = MaxConnId

----------------------------------------------------------------------------
\* The sequence numbers of one CIP connection over a whole cycle of the generator:
\* the driver is opened once and connected sends follow without a bound.

\* driver.open(cip_connected=cip) of a connection that is not connected yet
SeqOpen ==
    /\ ~CIP_connected(State)
    /\ DriverOpen

\* connection.send(request, cip_connected=True) while CIP-connected: the request is
\* answered, or the socket fails in sock.send
SeqSend ==
    /\ cip_connected(State)
    /\ \E e \in {Exchange("ok", Success, 0, SUCCESS, NoIds),
                Exchange("send_err", 0, 0, 0, NoIds)} :
       \E r \in {CIP_send(State, "parent", "True", e)} :
          /\ Commit(r)
          /\ last' = Call("send", "parent", "True", r, e, NoExchange)
          /\ UNCHANGED child

SeqNext ==
    \/ SeqOpen
    \/ SeqSend

SeqSpec == Init /\ [][SeqNext]_vars

\* the last call was a connected send that carried a sequence number
SequencedSend ==
    /\ last.op = "send"
    /\ last.wire # <<>>
    /\ last.wire[1].ev = "ConnectedSend"
    /\ last.wire[1].seq # NoSeq

\* C11: the sequence numbers of successive connected sends of one CIP connection
\* form the cycle 1, 2, ..., 65535, 1, 2, ...: each send carries a number in
\* 1..65535, never 0, and the next send carries its successor, 1 after 65535.
C11_SequenceCycle ==
    SequencedSend
        => /\ last.wire[1].seq \in 1..65535
           /\ _sequence_generator["parent"] =
                 IF last.wire[1].seq = 65535 THEN 1 ELSE last.wire[1].seq + 1

----------------------------------------------------------------------------
\* The bytes of connected sends: the driver is opened once, with any transport
\* class, and connected sends follow, each with a request body and the data of
\* the reply.

\* transport_class: Literal[0, 1, 2, 3]
AllTransportClasses == 0..3

\* the byte values that are told apart
ByteValues == {0, 1}

\* the byte strings of at most n bytes
RECURSIVE BytesUpTo(_)
BytesUpTo(n) ==
    IF n = 0 THEN {<<>>}
    ELSE BytesUpTo(n - 1) \cup
         {Append(b, x) : b \in {y \in BytesUpTo(n - 1) : Len(y) = n - 1}, x \in ByteValues}

\* what can come of a connected send: a reply that is parsed, a reply with a
\* non-zero ENIP header status, no reply because sock.send failed
UnitReplies ==
    {Exchange("ok", Success, 0, SUCCESS, NoIds), Exchange("ok", 1, 0, 0, NoIds),
     Exchange("send_err", 0, 0, 0, NoIds)}

\* Init with every transport class
WireInit ==
    /\ _connected = FALSE
    /\ _session_id = 0
    /\ _sock = "created"
    /\ connected_config = NoIds
    /\ transport_class \in AllTransportClasses
    /\ _sequence_generator = [c \in Conns |-> cycle(SeqStop, SeqStart)]
    /\ fresh = [c \in Conns |-> FALSE]
    /\ child = FALSE
    /\ negotiated = Serials(NoIds)
    /\ last = [op |-> "init", conn |-> "parent", flag |-> "None", exc |-> NoExc,
               wire |-> <<>>, e1 |-> NoExchange, e2 |-> NoExchange, first |-> FALSE,
               pre |-> [connected |-> FALSE, session_id |-> 0, cfg |-> NoIds,
                        negotiated |-> Serials(NoIds)]]
    /\ root = NoRoot
    /\ mutation = NoMutation
    /\ segment = NoSegment
    /\ epath = NoPath
    /\ receive = NoReceive
    /\ replaced = NoReplaced
    /\ decoding = NoDecoding
    /\ response = NoResponse

\* connection.send(request, cip_connected=True) while CIP-connected, with the bytes
\* of the request and of the reply
WireSend ==
    /\ cip_connected(State)
    /\ MaySend("parent")
    /\ \E e \in UnitReplies, body \in BytesUpTo(MaxBody) :
       \E data \in IF e.io = "ok" /\ e.status = Success THEN BytesUpTo(MaxData) ELSE {<<>>} :
       \E r \in {_connected_send_bytes(State, "parent", body, e, data)} :
          /\ Commit(r)
          /\ last' = Call("send", "parent", "True", r, e, NoExchange) @@ [unit |-> r.unit]
          /\ UNCHANGED child

WireNext ==
    \/ SeqOpen
    \/ WireSend

WireSpec == WireInit /\ [][WireNext]_vars

\* the last call was a connected send whose reply was handed to the parser
ReplyParsed ==
    /\ last.op = "send"
    /\ last.wire # <<>>
    /\ last.exc = NoExc

\* C12: a request completes before the next begins, and the reply handed to the
\* parser for a connected request carries the sequence number of that request,
\* whatever the target sent.
C12_ReplySequenceMatches ==
    (ReplyParsed /\ last.wire[1].seq # NoSeq)
        => last.unit.resp_seq_id = last.wire[1].seq

\* the last call was a connected send that wrote its request
UnitSent == last.op = "send" /\ last.wire # <<>>

\* C15: with transport class 1, 2 or 3 a connected send puts exactly one
\* little-endian UINT, the sequence number, before the request body and takes
\* exactly two bytes from the front of the reply data before the parser gets it;
\* with transport class 0 it adds nothing and takes nothing.
C15_SequencePrefix ==
    /\ (UnitSent /\ transport_class \in 1..3)
            => /\ Len(last.unit.sent) = Len(last.unit.body) + 2
               /\ last.unit.sent[1] + 256 * last.unit.sent[2] = last.wire[1].seq
               /\ SubSeq(last.unit.sent, 3, Len(last.unit.sent)) = last.unit.body
    /\ (ReplyParsed /\ transport_class \in 1..3)
            => /\ Len(last.unit.parsed) = Len(last.unit.data) - 2
               /\ SubSeq(last.unit.data, 3, Len(last.unit.data)) = last.unit.parsed
    /\ (UnitSent /\ transport_class = 0)
            => /\ last.unit.sent = last.unit.body
               /\ last.wire[1].seq = NoSeq
    /\ (ReplyParsed /\ transport_class = 0)
            => last.unit.parsed = last.unit.data

\* C15 witness: with transport class 3 the second connected send went out as
\* 02 00 and one body byte, and of the reply 01 00 and one byte the parser got
\* the one byte.
C15_Witness ==
    /\ ReplyParsed
    /\ transport_class = 3
    /\ last.unit.body = <<1>>
    /\ last.unit.sent = <<2, 0, 1>>
    /\ last.unit.data = <<1, 0, 1>>
    /\ last.unit.parsed = <<1>>

----------------------------------------------------------------------------
\* Forward Close and the choice of the send path, under Spec

\* the last call was a forward_close() that wrote its request
ForwardCloseSent ==
    /\ last.op = "forward_close"
    /\ last.wire # <<>>

\* C13: forward_close() sends the Forward Close with the connection_serial and
\* originator_serial recorded by the preceding successful Forward Open; on success
\* the two connection ids and the two serials are all 0, cip_connected is false
\* and the session stays registered; on failure the four values are unchanged.
C13_ForwardClose ==
    ForwardCloseSent
        => /\ Serials(last.wire[1]) = last.pre.negotiated
           /\ last.exc = NoExc
                => /\ connected_config = NoIds
                   /\ ~cip_connected(State)
                   /\ EIP_connected(State)
                   /\ _session_id = last.pre.session_id
           /\ last.exc # NoExc => connected_config = last.pre.cfg

\* C13 witness: a forward_close() that succeeded on a connection whose Forward
\* Open had been answered with non-zero serials.
C13_Witness ==
    /\ ForwardCloseSent
    /\ last.exc = NoExc
    /\ last.wire[1].connection_serial = MaxSerial
    /\ last.pre.cfg.o2t # 0
    /\ connected_config = NoIds
    /\ _session_id # 0

\* the last call was a send() on a registered connection
SendOnRegistered == last.op = "send" /\ last.pre.connected

\* the connection was CIP-connected when the last call was made
WasCipConnected == last.pre.connected /\ last.pre.cfg.o2t # 0

\* the last call took the connected path: it wrote a connected send, or, without
\* a CIP connection, was refused before writing
TookConnectedPath ==
    IF WasCipConnected
    THEN last.wire # <<>> /\ last.wire[1].ev = "ConnectedSend"
    ELSE last.wire = <<>> /\ last.exc = "ConnectionError"

\* the last call took the unconnected path: it wrote an unconnected send
TookUnconnectedPath == last.wire # <<>> /\ last.wire[1].ev = "UnconnectedSend"

\* C14: send(request, cip_connected) takes the connected path iff the connection
\* is CIP-connected when the flag is None, the connected path when the flag is
\* True, and the unconnected path when the flag is False, CIP-connected or not.
C14_SendPath ==
    SendOnRegistered
        => /\ last.flag = "None" => IF WasCipConnected THEN TookConnectedPath
                                    ELSE TookUnconnectedPath
           /\ last.flag = "True" => TookConnectedPath
           /\ last.flag = "False" => TookUnconnectedPath

\* C14 witness: send(request, cip_connected=False) on a CIP-connected connection
\* went out as an unconnected send.
C14_Witness ==
    /\ SendOnRegistered
    /\ WasCipConnected
    /\ last.flag = "False"
    /\ TookUnconnectedPath
    /\ last.exc = NoExc

----------------------------------------------------------------------------
\* The data type engine: Struct and Array (data_types/_base.py)
\*
\* An object is modelled as a value that holds the objects it contains. A Struct
\* is [cls, vals, enc, parent_struct, parent_array, initialized]: vals are its
\* attributes, enc is __encoded_fields__, parent_struct is TRUE when
\* __parent_struct__ names the struct that holds it, parent_array is the index of
\* __parent_array__ or None. An Array is [_array, _encoded_array, parent_struct].
\* A back reference is followed by the operator that holds the container
\* (Assign below), after the contained object has finished its own assignment.

\* bounds of the values
\* field and element values: 0..MaxValue
MaxValue == 1
\* elements of an array: 0..MaxItems
MaxItems == 2

\* Python's None, for an attribute of an integer type
None == -1
\* no attribute is named
NoName == ""

\* the types of the attributes
USINT == [kind |-> "int", size |-> 1]
UINT == [kind |-> "int", size |-> 2]
UDINT == [kind |-> "int", size |-> 4]
StructT(cls) == [kind |-> "struct", cls |-> cls]
\* Array[elem, ...]
ArrayT(elem) == [kind |-> "array", elem |-> elem]

\* The struct classes of the model, declared as the unit tests declare theirs:
\*   Inner:   x: USINT
\*   Root:    a: USINT; s: Inner; els: Array[Inner, ...]
\*   Sized:   a: USINT; struct_size: UINT = attr(size_ref=True);
\*            b: Array[USINT, ...]; s: Inner
\*   Opt:     x: UINT; y: USINT | None = attr(default=None, conditional_on="x");
\*            z: UINT
\*   Counted: x: USINT; count: UINT = attr(init=False);
\*            items: Array[USINT, ...] = attr(len_ref="count"); z: UDINT
\* cls.__struct_members__: the names in the order of declaration, and their types
__struct_members__(cls) ==
    CASE cls = "Inner" -> <<"x">>
      [] cls = "Root" -> <<"a", "s", "els">>
      [] cls = "Sized" -> <<"a", "struct_size", "b", "s">>
      [] cls = "Opt" -> <<"x", "y", "z">>
      [] cls = "Counted" -> <<"x", "count", "items", "z">>

MemberType(cls, name) ==
    CASE cls = "Inner" -> USINT
      [] cls = "Root" ->
            (CASE name = "a" -> USINT
               [] name = "s" -> StructT("Inner")
               [] name = "els" -> ArrayT(StructT("Inner")))
      [] cls = "Sized" ->
            (CASE name = "a" -> USINT
               [] name = "struct_size" -> UINT
               [] name = "b" -> ArrayT(USINT)
               [] name = "s" -> StructT("Inner"))
      [] cls = "Opt" -> IF name = "y" THEN USINT ELSE UINT
      [] cls = "Counted" ->
            (CASE name = "x" -> USINT
               [] name = "count" -> UINT
               [] name = "items" -> ArrayT(USINT)
               [] name = "z" -> UDINT)

\* cls.__struct_array_length_sources__.get(key): the name of the length attribute
LenRef(cls, key) ==
    IF cls = "Counted" /\ key = "items" THEN "count" ELSE NoName

\* cls.__struct_size_ref__: the name of the size attribute
SizeRef(cls) ==
    IF cls = "Sized" THEN "struct_size" ELSE NoName

\* cls.__struct_conditional_attributes__.get(key): the name of the attribute
\* the presence of key depends on
ConditionalOn(cls, key) ==
    IF cls = "Opt" /\ key = "y" THEN "x" ELSE NoName

\* the predicate of a conditional attribute when none is given
_default_conditional_callable(value) ==
    value = 0

\* the attributes __init__ takes: attr(init=False) and attr(size_ref=True) are not
InitMembers(cls) ==
    CASE cls = "Sized" -> <<"a", "b", "s">>
      [] cls = "Counted" -> <<"x", "items", "z">>
      [] OTHER -> __struct_members__(cls)

RECURSIVE pack(_, _)
\* ElementaryDataType._encode of an unsigned integer type: size bytes, little endian
pack(size, value) ==
    IF size = 0 THEN <<>> ELSE <<value % 256>> \o pack(size - 1, value \div 256)

RECURSIVE unpack(_)
\* ElementaryDataType._decode of an unsigned integer type
unpack(data) ==
    IF data = <<>> THEN 0 ELSE Head(data) + 256 * unpack(Tail(data))

RECURSIVE join(_)
\* b"".join(parts)
join(parts) ==
    IF parts = <<>> THEN <<>> ELSE Head(parts) \o join(Tail(parts))

\* the sequence of the encoded attributes of a struct, in the order of declaration
EncodedFields(value) ==
    [i \in 1..Len(__struct_members__(value.cls)) |->
        value.enc[__struct_members__(value.cls)[i]]]

\* Struct._encode: DataError when a conditional attribute that is to be present
\* has no bytes, else the join of the encoded attributes
Struct__encode(value) ==
    IF \E i \in 1..Len(__struct_members__(value.cls)) :
          /\ ConditionalOn(value.cls, __struct_members__(value.cls)[i]) # NoName
          /\ _default_conditional_callable(
                value.vals[ConditionalOn(value.cls, __struct_members__(value.cls)[i])])
          /\ value.enc[__struct_members__(value.cls)[i]] = <<>>
    THEN [exc |-> "DataError", bytes |-> <<>>]
    ELSE [exc |-> NoExc, bytes |-> join(EncodedFields(value))]

\* Array._encode of an array whose length is not a type: the join of _encoded_array
Array__encode(value) ==
    join(value._encoded_array)

\* bytes(value) for a value of type typ; the structs held by another object have
\* no conditional attribute, so that their encoding never raises
bytes_of(typ, value) ==
    CASE typ.kind = "int" -> pack(typ.size, value)
      [] typ.kind = "struct" -> Struct__encode(value).bytes
      [] typ.kind = "array" -> Array__encode(value)

\* value is None
IsNone(typ, value) ==
    typ.kind = "int" /\ value = None

\* Struct.__new__: the object before __init__ has run
Struct___new__(cls) ==
    [cls |-> cls,
     vals |-> [n \in {__struct_members__(cls)[i] : i \in 1..Len(__struct_members__(cls))}
                 |-> None],
     enc |-> <<>>, parent_struct |-> FALSE, parent_array |-> None,
     initialized |-> FALSE]

\* Struct.__setattr__, lines 573-581: the attribute is encoded into
\* __encoded_fields__ and stored, and a struct or an array is given its back
\* reference
store(self, key, value) ==
    [self EXCEPT
       !.enc = [k \in DOMAIN self.enc \cup {key} |->
                  IF k # key THEN self.enc[k]
                  ELSE IF IsNone(MemberType(self.cls, key), value) THEN <<>>
                  ELSE bytes_of(MemberType(self.cls, key), value)],
       !.vals[key] = IF MemberType(self.cls, key).kind = "int" THEN value
                     ELSE [value EXCEPT !.parent_struct = TRUE]]

RECURSIVE sum_len(_, _, _)
\* sum(len(self.__encoded_fields__[m]) for m in members[from:])
sum_len(self, members, from) ==
    IF from > Len(members) THEN 0
    ELSE Len(self.enc[members[from]]) + sum_len(self, members, from + 1)

\* member_list.index(name) + 1, as an index of the model's sequences from 1
IndexOf(members, name) ==
    CHOOSE i \in 1..Len(members) : members[i] = name

RECURSIVE Struct___setattr__(_, _, _)
RECURSIVE _update_size_ref(_)

\* Struct.__setattr__(self, key, value) for a value of the attribute's type, up
\* to the back references of self, which the holder of self follows: the result
\* is [o, exc], o the object afterwards. The guard on a conditional attribute
\* raises before anything is changed; the length attribute of a len_ref'd array
\* is set first, the size attribute is updated last.
Struct___setattr__(self, key, value) ==
    IF /\ ConditionalOn(self.cls, key) # NoName
       /\ ~IsNone(MemberType(self.cls, key), value)
       /\ ~_default_conditional_callable(self.vals[ConditionalOn(self.cls, key)])
    THEN [o |-> self, exc |-> "DataError"]
    ELSE CHOOSE out \in
           {[o |-> IF SizeRef(self.cls) # NoName /\ key # SizeRef(self.cls)
                   THEN _update_size_ref(stored) ELSE stored,
             exc |-> NoExc] :
              stored \in {store(counted, key, value) :
                 counted \in {IF LenRef(self.cls, key) = NoName THEN self
                              ELSE Struct___setattr__(self, LenRef(self.cls, key),
                                                      Len(value._array)).o}}} : TRUE

\* Struct._update_size_ref
_update_size_ref(self) ==
    IF SizeRef(self.cls) = NoName \/ ~self.initialized THEN self
    ELSE Struct___setattr__(self, SizeRef(self.cls),
           sum_len(self, __struct_members__(self.cls),
                   IndexOf(__struct_members__(self.cls), SizeRef(self.cls)) + 1)).o

\* Array.__init__ of an Array[elem, ...] from a sequence of values of the element
\* type: the elements that are structs get their back reference, every element is
\* encoded
Array___init__(typ, value) ==
    [_array |-> [i \in 1..Len(value) |->
                    IF typ.elem.kind = "struct"
                    THEN [value[i] EXCEPT !.parent_array = i - 1] ELSE value[i]],
     _encoded_array |-> [i \in 1..Len(value) |-> bytes_of(typ.elem, value[i])],
     parent_struct |-> FALSE]

\* list[start:stop] = items, for 0 <= start <= stop: Python cuts both to len(list)
SliceAssign(list, start, stop, items) ==
    CHOOSE out \in
      {SubSeq(list, 1, lo) \o items \o SubSeq(list, hi + 1, Len(list)) :
         lo \in {IF start < Len(list) THEN start ELSE Len(list)},
         hi \in {IF stop < Len(list) THEN stop ELSE Len(list)}} : TRUE

\* list[start:stop], for 0 <= start <= stop
Slice(list, start, stop) ==
    SubSeq(list, (IF start < Len(list) THEN start ELSE Len(list)) + 1,
                 IF stop < Len(list) THEN stop ELSE Len(list))

\* Array.__setitem__(self, item, value) for an index: the element is stored,
\* then encoded; an index out of the range of either list ends in DataError, of
\* _encoded_array after _array has taken the element
Array___setitem__(typ, self, item, value) ==
    IF item >= Len(self._array) THEN [o |-> self, exc |-> "DataError"]
    ELSE IF item >= Len(self._encoded_array)
    THEN [o |-> [self EXCEPT !._array[item + 1] = value], exc |-> "DataError"]
    ELSE [o |-> [self EXCEPT !._array[item + 1] = value,
                             !._encoded_array[item + 1] = bytes_of(typ.elem, value)],
          exc |-> NoExc]

\* Array.__setitem__(self, slice(start, stop), value): _array takes the values,
\* then _encoded_array takes, at the same slice, the encodings of what that
\* slice of the new _array holds
Array___setitem___slice(typ, self, start, stop, value) ==
    CHOOSE out \in
      {[o |-> [self EXCEPT
                 !._array = stored,
                 !._encoded_array =
                     SliceAssign(self._encoded_array, start, stop,
                        [i \in 1..Len(Slice(stored, start, stop)) |->
                            bytes_of(typ.elem, Slice(stored, start, stop)[i])])],
        exc |-> NoExc] :
         stored \in {SliceAssign(self._array, start, stop, value)}} : TRUE

RECURSIVE __init__(_, _, _)
\* the __init__ of the dataclass: the attributes are assigned in the order of
\* declaration
__init__(self, names, args) ==
    IF names = <<>> THEN self
    ELSE CHOOSE out \in
           {__init__(assigned.o, Tail(names), args) :
              assigned \in {Struct___setattr__(self, Head(names), args[Head(names)])}} : TRUE

\* Struct.__post_init__: __setattr__ has converted and encoded every attribute
\* that was assigned, so what is left is to mark the struct and to set its size
__post_init__(self) ==
    CHOOSE out \in {_update_size_ref(marked) :
                      marked \in {[self EXCEPT !.initialized = TRUE]}} : TRUE

\* cls(**args)
New(cls, args) ==
    CHOOSE out \in {__post_init__(made) :
                      made \in {__init__(Struct___new__(cls), InitMembers(cls), args)}} : TRUE

RECURSIVE Assign(_, _, _, _)
\* The assignment `how` made on the object that path leads to from obj, an
\* object of type typ. A step of path is the name of an attribute or the index
\* of an element. The result is [o, exc, notify]: o is obj afterwards, and notify
\* tells that obj has run its own __setattr__ or __setitem__, after which it
\* follows its back references. The holder follows them here:
\*   a struct holding o runs __setattr__(name, o) when o.__parent_struct__ is
\*   set (lines 583-585 and 869-871), and then follows its own;
\*   an array holding o stores bytes(o) at the index of o.__parent_array__
\*   (lines 587-589), and that is all it does.
\* A size attribute makes a struct notify its holder twice, before and after the
\* update of the size; the second __setattr__ of the holder overwrites all that
\* the first one wrote, so the holder is modelled as notified once, last.
Assign(typ, obj, path, how) ==
    IF path = <<>>
    THEN CHOOSE out \in
           {[o |-> r.o, exc |-> r.exc, notify |-> r.exc = NoExc] :
              r \in {CASE how.op = "setattr" ->
                            Struct___setattr__(obj, how.key, how.value)
                       [] how.op = "setitem" ->
                            Array___setitem__(typ, obj, how.item, how.value)
                       [] how.op = "setslice" ->
                            Array___setitem___slice(typ, obj, how.start, how.stop,
                                                    how.value)}} : TRUE
    ELSE IF typ.kind = "struct"
    THEN CHOOSE out \in
           {IF r.notify /\ r.o.parent_struct
            THEN [o |-> Struct___setattr__(obj, Head(path), r.o).o, exc |-> r.exc,
                  notify |-> TRUE]
            ELSE [o |-> [obj EXCEPT !.vals[Head(path)] = r.o], exc |-> r.exc,
                  notify |-> FALSE] :
              r \in {Assign(MemberType(obj.cls, Head(path)), obj.vals[Head(path)],
                            Tail(path), how)}} : TRUE
    ELSE CHOOSE out \in
           {IF r.notify /\ r.o.parent_array # None
            THEN IF r.o.parent_array >= Len(obj._encoded_array)
                 THEN [o |-> [obj EXCEPT !._array[Head(path) + 1] = r.o],
                       exc |-> "IndexError", notify |-> FALSE]
                 ELSE [o |-> [obj EXCEPT
                                !._array[Head(path) + 1] = r.o,
                                !._encoded_array[r.o.parent_array + 1] =
                                    bytes_of(typ.elem, r.o)],
                       exc |-> r.exc, notify |-> FALSE]
            ELSE [o |-> [obj EXCEPT !._array[Head(path) + 1] = r.o], exc |-> r.exc,
                  notify |-> FALSE] :
              r \in {Assign(typ.elem, obj._array[Head(path) + 1], Tail(path), how)}} : TRUE

\* the values a program holds of a type: integers, structs made by their class,
\* and the lists it assigns to an array attribute
Values == 0..MaxValue

ElementsOf(typ) ==
    IF typ.kind = "int" THEN Values ELSE {New(typ.cls, [x |-> v]) : v \in Values}

ListsOf(typ) ==
    UNION {[1..n -> ElementsOf(typ)] : n \in 0..MaxItems}

\* the values that are assigned to attribute key of a struct of class cls: a list
\* is converted by __setattr__ with typ(value), lines 557-564
ValuesOf(cls, key) ==
    CASE MemberType(cls, key).kind = "array" ->
            {Array___init__(MemberType(cls, key), l) :
                l \in ListsOf(MemberType(cls, key).elem)}
      [] MemberType(cls, key).kind = "struct" -> ElementsOf(MemberType(cls, key))
      [] OTHER -> IF ConditionalOn(cls, key) = NoName THEN Values
                  ELSE Values \cup {None}

\* the structs a program reaches from a struct of class cls, and the arrays
StructPaths(obj) ==
    {<<>>} \cup
    (IF obj.cls \in {"Root", "Sized"} THEN {<<"s">>} ELSE {}) \cup
    (IF obj.cls = "Root"
     THEN {<<"els", i>> : i \in 0..(Len(obj.vals["els"]._array) - 1)} ELSE {})

ArrayPaths(obj) ==
    CASE obj.cls = "Root" -> {<<"els">>}
      [] obj.cls = "Sized" -> {<<"b">>}
      [] obj.cls = "Counted" -> {<<"items">>}
      [] OTHER -> {}

RECURSIVE At(_, _, _)
\* the object path leads to, with its type
At(typ, obj, path) ==
    IF path = <<>> THEN [typ |-> typ, o |-> obj]
    ELSE IF typ.kind = "struct"
    THEN At(MemberType(obj.cls, Head(path)), obj.vals[Head(path)], Tail(path))
    ELSE At(typ.elem, obj._array[Head(path) + 1], Tail(path))

\* the structs a program starts from
Roots ==
    {New("Root", [a |-> v, s |-> in, els |-> e]) :
        v \in Values, in \in ValuesOf("Root", "s"), e \in ValuesOf("Root", "els")} \cup
    {New("Sized", [a |-> v, b |-> l, s |-> in]) :
        v \in Values, l \in ValuesOf("Sized", "b"), in \in ValuesOf("Sized", "s")} \cup
    UNION {{New("Opt", [x |-> v, y |-> o, z |-> w]) :
               w \in Values,
               o \in {c \in ValuesOf("Opt", "y") :
                         c = None \/ _default_conditional_callable(v)}} :
             v \in Values} \cup
    {New("Counted", [x |-> v, items |-> l, z |-> w]) :
        v \in Values, l \in ValuesOf("Counted", "items"), w \in Values}

\* a program that holds one struct and takes no connection
DataInit ==
    /\ _connected = FALSE
    /\ _session_id = 0
    /\ _sock = "created"
    /\ connected_config = NoIds
    /\ transport_class = 0
    /\ _sequence_generator = [c \in Conns |-> cycle(SeqStop, SeqStart)]
    /\ fresh = [c \in Conns |-> FALSE]
    /\ child = FALSE
    /\ negotiated = Serials(NoIds)
    /\ last = [op |-> "init", conn |-> "parent", flag |-> "None", exc |-> NoExc,
               wire |-> <<>>, e1 |-> NoExchange, e2 |-> NoExchange, first |-> FALSE,
               pre |-> [connected |-> FALSE, session_id |-> 0, cfg |-> NoIds,
                        negotiated |-> Serials(NoIds)]]
    /\ root \in Roots
    /\ mutation = NoMutation
    /\ segment = NoSegment
    /\ epath = NoPath
    /\ receive = NoReceive
    /\ replaced = NoReplaced
    /\ decoding = NoDecoding
    /\ response = NoResponse

\* the assignment `how`, at the object path leads to, becomes the state; key is
\* the attribute of root that was assigned or that holds what was assigned
Mutate(path, how) ==
    /\ \E r \in {Assign(StructT(root.cls), root, path, how)} :
          /\ root' = r.o
          /\ mutation' = [op |-> how.op,
                          key |-> IF path = <<>> THEN how.key ELSE Head(path),
                          exc |-> r.exc]
    /\ UNCHANGED <<_connected, _session_id, _sock, connected_config, transport_class,
                   _sequence_generator, child, fresh, negotiated, last, segment, epath,
                   receive, replaced, decoding, response>>

\* struct.key = value, for a struct reached from root
SetAttr ==
    \E path \in StructPaths(root) :
       \E at \in {At(StructT(root.cls), root, path)} :
          \E key \in DOMAIN at.o.vals :
             \E value \in ValuesOf(at.o.cls, key) :
                Mutate(path, [op |-> "setattr", key |-> key, value |-> value])

\* array[item] = value, for an array reached from root
SetItem ==
    \E path \in ArrayPaths(root) :
       \E at \in {At(StructT(root.cls), root, path)} :
          \E item \in 0..(Len(at.o._array) - 1) :
             \E value \in ElementsOf(at.typ.elem) :
                Mutate(path, [op |-> "setitem", item |-> item, value |-> value])

\* array[start:stop] = value, for an array reached from root; the array is kept
\* within MaxItems elements
SetSlice ==
    \E path \in ArrayPaths(root) :
       \E at \in {At(StructT(root.cls), root, path)} :
          \E start \in 0..Len(at.o._array) :
             \E stop \in start..Len(at.o._array) :
                \E value \in ListsOf(at.typ.elem) :
                   /\ Len(at.o._array) - (stop - start) + Len(value) <= MaxItems
                   /\ Mutate(path, [op |-> "setslice", start |-> start, stop |-> stop,
                                    value |-> value])

DataNext ==
    \/ SetAttr
    \/ SetItem
    \/ SetSlice

DataSpec == DataInit /\ [][DataNext]_vars

----------------------------------------------------------------------------
\* Decoding a struct, and the value a program constructs anew

\* typ.decode(stream) of an unsigned integer type: BufferEmptyError when the
\* stream has no byte left, DataError when it has fewer than the type takes
Elementary_decode(typ, stream) ==
    IF stream = <<>> THEN [exc |-> "BufferEmptyError", value |-> None, rest |-> stream]
    ELSE IF Len(stream) < typ.size
    THEN [exc |-> "DataError", value |-> None, rest |-> <<>>]
    ELSE [exc |-> NoExc, value |-> unpack(SubSeq(stream, 1, typ.size)),
          rest |-> SubSeq(stream, typ.size + 1, Len(stream))]

RECURSIVE Array_decode(_, _, _)
\* array(elem, length).decode(stream): length elements, one after the other
Array_decode(elem, length, stream) ==
    IF length = 0 THEN [exc |-> NoExc, value |-> <<>>, rest |-> stream]
    ELSE CHOOSE out \in
           {IF first.exc # NoExc THEN [exc |-> first.exc, value |-> <<>>, rest |-> <<>>]
            ELSE CHOOSE more \in
                   {[exc |-> others.exc, value |-> <<first.value>> \o others.value,
                     rest |-> others.rest] :
                      others \in {Array_decode(elem, length - 1, first.rest)}} : TRUE :
              first \in {Elementary_decode(elem, stream)}} : TRUE

\* values | {name: value}
With(values, name, value) ==
    [k \in DOMAIN values \cup {name} |-> IF k = name THEN value ELSE values[k]]

RECURSIVE decode_members(_, _, _, _)
\* the loop of Struct._decode over the members `names` of a class whose
\* attributes are integers and arrays of integers: a len_ref'd array takes the
\* length that was decoded before it, a conditional attribute is decoded when
\* the predicate holds of the decoded value it depends on, else it is None
decode_members(cls, names, stream, values) ==
    IF names = <<>> THEN [exc |-> NoExc, values |-> values]
    ELSE CHOOSE out \in
           {IF r.exc # NoExc THEN [exc |-> r.exc, values |-> values]
            ELSE decode_members(cls, Tail(names), r.rest,
                                With(values, Head(names), r.value)) :
              r \in {IF LenRef(cls, Head(names)) # NoName
                     THEN Array_decode(MemberType(cls, Head(names)).elem,
                                       values[LenRef(cls, Head(names))], stream)
                     ELSE IF /\ ConditionalOn(cls, Head(names)) # NoName
                             /\ ~_default_conditional_callable(
                                    values[ConditionalOn(cls, Head(names))])
                     THEN [exc |-> NoExc, value |-> None, rest |-> stream]
                     ELSE Elementary_decode(MemberType(cls, Head(names)), stream)}} : TRUE

\* the arguments of cls(**init_vars): a decoded list becomes an array
InitVars(cls, values) ==
    [n \in {InitMembers(cls)[i] : i \in 1..Len(InitMembers(cls))} |->
        IF MemberType(cls, n).kind = "array"
        THEN Array___init__(MemberType(cls, n), values[n]) ELSE values[n]]

\* Struct._decode, lines 663-668: the instance is made of the decoded values,
\* and the attributes with init=False are assigned after it (of the classes
\* that are decoded here, Counted has one: count)
Struct__decode(cls, data) ==
    CHOOSE out \in
      {IF d.exc # NoExc THEN [exc |-> d.exc, o |-> NoRoot]
       ELSE CHOOSE made \in
              {IF cls = "Counted"
               THEN [exc |-> NoExc,
                     o |-> Struct___setattr__(instance, "count", d.values["count"]).o]
               ELSE [exc |-> NoExc, o |-> instance] :
                 instance \in {New(cls, InitVars(cls, d.values))}} : TRUE :
         d \in {decode_members(cls, __struct_members__(cls), data, <<>>)}} : TRUE

\* a == b for two structs of a class whose attributes are integers and arrays of
\* integers: the attributes are equal, two arrays when their elements are
Struct___eq__(a, b) ==
    /\ a.cls = b.cls
    /\ \A n \in DOMAIN a.vals :
          IF MemberType(a.cls, n).kind = "array"
          THEN a.vals[n]._array = b.vals[n]._array
          ELSE a.vals[n] = b.vals[n]

RECURSIVE Fresh(_, _)
\* the value a program constructs anew from the attributes and elements that
\* value has now
Fresh(typ, value) ==
    CASE typ.kind = "int" -> value
      [] typ.kind = "struct" ->
            New(value.cls,
                [n \in {InitMembers(value.cls)[i] : i \in 1..Len(InitMembers(value.cls))} |->
                    Fresh(MemberType(value.cls, n), value.vals[n])])
      [] typ.kind = "array" ->
            Array___init__(typ, [i \in 1..Len(value._array) |->
                                    Fresh(typ.elem, value._array[i])])

RECURSIVE FollowingSize(_, _)
\* the number of bytes that the attributes of self from index `from` on encode to
FollowingSize(self, from) ==
    IF from > Len(__struct_members__(self.cls)) THEN 0
    ELSE Len(bytes_of(MemberType(self.cls, __struct_members__(self.cls)[from]),
                      Fresh(MemberType(self.cls, __struct_members__(self.cls)[from]),
                            self.vals[__struct_members__(self.cls)[from]])))
         + FollowingSize(self, from + 1)

----------------------------------------------------------------------------
\* Properties of the data type engine

\* C16: whatever was assigned, to an attribute of the struct, of a struct it
\* holds or of a struct element of an array it holds, or to an element or a slice
\* of that array, bytes(root) is the encoding of the struct a program constructs
\* anew from the values root has now
C16_CacheConsistent ==
    root.cls = "Root" =>
        Struct__encode(root).bytes = Struct__encode(Fresh(StructT("Root"), root)).bytes

\* C17: whatever was assigned, the size attribute included, the size attribute
\* of a struct that declares one is the number of bytes that the attributes
\* after it encode to
C17_SizeRefCurrent ==
    root.cls = "Sized" =>
        root.vals["struct_size"] =
            FollowingSize(root, IndexOf(__struct_members__("Sized"), "struct_size") + 1)

\* C18: whatever was assigned to x and y, when the predicate is false of x the
\* encoding of the struct has no byte of y, and when it is true the encoding has
\* the bytes of y, or encoding raises DataError if y is None
C18_ConditionalEncoding ==
    root.cls = "Opt" =>
        IF ~_default_conditional_callable(root.vals["x"])
        THEN /\ Struct__encode(root).exc = NoExc
             /\ Struct__encode(root).bytes =
                    pack(UINT.size, root.vals["x"]) \o pack(UINT.size, root.vals["z"])
        ELSE IF root.vals["y"] = None
        THEN Struct__encode(root).exc = "DataError"
        ELSE /\ Struct__encode(root).exc = NoExc
             /\ Struct__encode(root).bytes =
                    pack(UINT.size, root.vals["x"]) \o pack(USINT.size, root.vals["y"])
                    \o pack(UINT.size, root.vals["z"])

\* the array of the len_ref'd attribute was assigned, or an element or a slice
\* of it
ItemsAssigned ==
    /\ root.cls = "Counted"
    /\ mutation.key = "items"
    /\ mutation.exc = NoExc

\* C19: after the array attribute, an element or a slice of the array was
\* assigned, the length attribute is len(array), and decoding the encoding of the
\* struct gives a struct equal to it
C19_LenRefRoundTrip ==
    ItemsAssigned =>
        /\ root.vals["count"] = Len(root.vals["items"]._array)
        /\ \E d \in {Struct__decode("Counted", Struct__encode(root).bytes)} :
              d.exc = NoExc /\ Struct___eq__(d.o, root)

----------------------------------------------------------------------------
\* Path segments (data_types/cip.py)

\* SegmentType
SegmentType_port == 0
SegmentType_logical == 32
SegmentType_network == 64
SegmentType_symbolic == 96
SegmentType_data == 128
SegmentType_mask == 224
\* PortSegmentFormat
ex_link_address == 16
mask_port_id == 15
\* LogicalSegmentType
type_instance_id == 4
type_connection_point == 12
type_special == 20
type_service_id == 24
type_reserved == 28
Logical_mask_type == 28
format_8bit == 0
format_16bit == 1
format_32bit == 2
format_reserved == 3
Logical_mask_format == 3
\* NetworkSegmentType
scheduled == 1
fixed_tag == 2
production_inhibit_time == 3
safety == 16
extended == 31
Network_mask_type == 31
mask_data_array == 16
\* SymbolicSegmentType and SymbolicSegmentExtendedFormat
mask_symbol_size == 31
double_byte_chars == 32
triple_byte_chars == 64
numeric_symbol_usint == 198
numeric_symbol_uint == 199
numeric_symbol_udint == 200
Symbolic_mask_format == 224
mask_size == 31
\* DataSegmentType
simple == 0
ansi_extended == 17

RECURSIVE BitAnd(_, _)
\* a & b of two integers that are not negative
BitAnd(a, b) ==
    IF a = 0 \/ b = 0 THEN 0
    ELSE (a % 2) * (b % 2) + 2 * BitAnd(a \div 2, b \div 2)

RECURSIVE BitOr(_, _)
\* a | b of two integers that are not negative
BitOr(a, b) ==
    IF a = 0 THEN b
    ELSE IF b = 0 THEN a
    ELSE (IF a % 2 = 1 \/ b % 2 = 1 THEN 1 ELSE 0) + 2 * BitOr(a \div 2, b \div 2)

\* The Python values an attribute of a segment holds: an int, an instance of
\* USINT, UINT or UDINT (size is the size of its type), a bytes or a str (b are
\* the bytes, or the ASCII codes of the characters)
PyInt(n) == [t |-> "int", n |-> n, b |-> <<>>, size |-> 0]
PyUInt(typ, n) == [t |-> "uint", n |-> n, b |-> <<>>, size |-> typ.size]
PyBytes(b) == [t |-> "bytes", n |-> 0, b |-> b, size |-> 0]
PyStr(chars) == [t |-> "str", n |-> 0, b |-> chars, size |-> 0]

\* isinstance(value, int)
IsInt(value) ==
    value.t \in {"int", "uint"}

\* a == b in Python: an int equals an instance of an integer type of the same
\* value, and no int equals a bytes, no bytes a str
PyEq(a, b) ==
    /\ IsInt(a) = IsInt(b)
    /\ IsInt(a) \/ a.t = b.t
    /\ a.n = b.n
    /\ a.b = b.b

\* USINT(value) raises DataError unless the value fits its byte
FitsUSINT(value) ==
    0 <= value /\ value <= 255

\* bytes(_find_best_uint_type(value)) for a value that is not negative
_find_best_uint_type(value) ==
    IF value < 256 THEN [exc |-> NoExc, bytes |-> pack(USINT.size, value)]
    ELSE IF value < 65536 THEN [exc |-> NoExc, bytes |-> pack(UINT.size, value)]
    ELSE IF value \div 65536 < 65536 THEN [exc |-> NoExc, bytes |-> pack(UDINT.size, value)]
    ELSE [exc |-> "DataError", bytes |-> <<>>]

\* a decoder that raises, and one that returns the segment its class made
Fail(exc) == [exc |-> exc, o |-> NoSegment, rest |-> <<>>]
Made(r, rest) == [exc |-> r.exc, o |-> r.o, rest |-> rest]

\* stream.read(size) of _stream_read: the bytes that are left, at most size
Read(stream, size) ==
    SubSeq(stream, 1, IF size < Len(stream) THEN size ELSE Len(stream))

\* the stream after stream.read(size)
AfterRead(stream, size) ==
    SubSeq(stream, (IF size < Len(stream) THEN size ELSE Len(stream)) + 1, Len(stream))

\* CIPSegment._decode_segment_type for a class of segment type segment_type
_decode_segment_type(segment_type, stream) ==
    LET r == Elementary_decode(USINT, stream)
    IN  IF r.exc # NoExc THEN r
        ELSE IF BitAnd(r.value, SegmentType_mask) # segment_type
        THEN [exc |-> "DataError", value |-> None, rest |-> <<>>]
        ELSE r

\* PortSegment(port, link_address).__post_init__ for a port that is an int and a
\* link address that is an int or a bytes
PortSegment___post_init__(port, link_address) ==
    LET link == IF IsInt(link_address) THEN _find_best_uint_type(link_address.n)
                ELSE [exc |-> NoExc, bytes |-> link_address.b]
    IN  IF port < 0 \/ port > 65535 \/ link.exc # NoExc \/ Len(link.bytes) > 255
        THEN [exc |-> "DataError", o |-> NoSegment]
        ELSE [exc |-> NoExc,
              o |-> [cls |-> "PortSegment",
                     _port |-> IF port > mask_port_id THEN mask_port_id ELSE port,
                     _ex_port |-> IF port > mask_port_id THEN port ELSE 0,
                     _link |-> link.bytes,
                     _ex_link |-> Len(link.bytes) > 1,
                     _link_addr_size |-> IF Len(link.bytes) > 1 THEN Len(link.bytes)
                                         ELSE 0]]

\* PortSegment._encode
PortSegment__encode(value, padded) ==
    LET segment_type ==
            BitOr(BitOr(SegmentType_port, value._port),
                  IF value._ex_link THEN ex_link_address ELSE 0)
        msg == <<segment_type>>
               \o (IF value._ex_port # 0 THEN pack(UINT.size, value._ex_port) ELSE <<>>)
               \o (IF value._ex_link THEN <<value._link_addr_size>> ELSE <<>>)
               \o value._link
    IN  [exc |-> NoExc, bytes |-> IF Len(msg) % 2 = 1 THEN msg \o <<0>> ELSE msg]

\* PortSegment._decode
PortSegment__decode(stream, padded) ==
    LET st == _decode_segment_type(SegmentType_port, stream)
        ex_link == BitAnd(st.value, ex_link_address) # 0
        port == IF BitAnd(st.value, mask_port_id) = mask_port_id
                THEN Elementary_decode(UINT, st.rest)
                ELSE [exc |-> NoExc, value |-> BitAnd(st.value, mask_port_id),
                      rest |-> st.rest]
        size == Elementary_decode(USINT, port.rest)
        link == Read(size.rest, size.value)
        after == AfterRead(size.rest, size.value)
        short == Elementary_decode(USINT, port.rest)
    IN  IF st.exc # NoExc THEN Fail(st.exc)
        ELSE IF port.exc # NoExc THEN Fail("DataError")
        ELSE IF ex_link
        THEN IF size.exc # NoExc THEN Fail(size.exc)
             ELSE IF size.value = 0 \/ Len(link) # size.value THEN Fail("DataError")
             ELSE IF size.value % 2 = 1
             THEN IF after = <<>> THEN Fail("DataError")
                  ELSE Made(PortSegment___post_init__(port.value, PyBytes(link)),
                            Tail(after))
             ELSE Made(PortSegment___post_init__(port.value, PyBytes(link)), after)
        ELSE IF short.exc # NoExc THEN Fail("DataError")
        ELSE Made(PortSegment___post_init__(port.value, PyUInt(USINT, short.value)),
                  short.rest)

\* LogicalSegment(type, value).__post_init__ for a value that is an int or a bytes
LogicalSegment___post_init__(type, value) ==
    LET _value == IF IsInt(value) THEN _find_best_uint_type(value.n)
                  ELSE [exc |-> NoExc, bytes |-> value.b]
        _val_len == Len(_value.bytes)
        made(_format) == [exc |-> NoExc,
                          o |-> [cls |-> "LogicalSegment", type |-> type, value |-> value,
                                 _value |-> _value.bytes, _format |-> _format]]
        refused == [exc |-> "DataError", o |-> NoSegment]
    IN  IF _value.exc # NoExc THEN refused
        ELSE IF type = type_service_id
        THEN IF _val_len # 1 THEN refused ELSE made(format_8bit)
        ELSE IF type = type_special THEN refused
        ELSE IF _val_len = 1 THEN made(format_8bit)
        ELSE IF _val_len = 2 THEN made(format_16bit)
        ELSE IF _val_len = 4
        THEN IF type \notin {type_instance_id, type_connection_point} THEN refused
             ELSE made(format_32bit)
        ELSE refused

\* LogicalSegment._encode
LogicalSegment__encode(value, padded) ==
    LET segment_type == BitOr(BitOr(SegmentType_logical, value.type), value._format)
    IN  IF ~FitsUSINT(segment_type) THEN [exc |-> "DataError", bytes |-> <<>>]
        ELSE [exc |-> NoExc,
              bytes |-> <<segment_type>>
                        \o (IF padded /\ value._format \in {format_16bit, format_32bit}
                            THEN <<0>> ELSE <<>>)
                        \o value._value]

\* LogicalSegment._decode
LogicalSegment__decode(stream, padded) ==
    LET st == _decode_segment_type(SegmentType_logical, stream)
        _type == BitAnd(st.value, Logical_mask_type)
        _format == BitAnd(st.value, Logical_mask_format)
        \* BYTES[1].decode(stream) skips the pad byte, and raises when there is none
        unpadded == IF padded /\ _format # format_8bit THEN AfterRead(st.rest, 1)
                    ELSE st.rest
        nopad == padded /\ _format # format_8bit /\ st.rest = <<>>
        value == IF _type = type_service_id \/ _format = format_8bit
                 THEN Elementary_decode(USINT, st.rest)
                 ELSE IF _format = format_16bit THEN Elementary_decode(UINT, unpadded)
                 ELSE Elementary_decode(UDINT, unpadded)
        typ == IF _type = type_service_id \/ _format = format_8bit THEN USINT
               ELSE IF _format = format_16bit THEN UINT ELSE UDINT
    IN  IF st.exc # NoExc THEN Fail(st.exc)
        ELSE IF _type = type_reserved \/ _format = format_reserved THEN Fail("DataError")
        ELSE IF /\ _format = format_32bit
                /\ _type \notin {type_instance_id, type_connection_point}
        THEN Fail("DataError")
        ELSE IF _type = type_special
        THEN IF _format = format_8bit /\ st.rest = <<>> THEN Fail("BufferEmptyError")
             ELSE Fail("DataError")
        ELSE IF _type = type_service_id /\ _format # format_8bit THEN Fail("DataError")
        ELSE IF nopad \/ value.exc # NoExc THEN Fail("DataError")
        ELSE Made(LogicalSegment___post_init__(_type, PyUInt(typ, value.value)),
                  value.rest)

\* _supported_network_segment_types
_supported_network_segment_types ==
    {scheduled, fixed_tag, production_inhibit_time, safety, extended}

\* NetworkSegment(type, data).__post_init__
NetworkSegment___post_init__(type, data) ==
    IF \/ type \notin _supported_network_segment_types
       \/ BitAnd(type, mask_data_array) = 0 /\ Len(data) # 1
    THEN [exc |-> "DataError", o |-> NoSegment]
    ELSE [exc |-> NoExc, o |-> [cls |-> "NetworkSegment", type |-> type, data |-> data]]

\* NetworkSegment._encode
NetworkSegment__encode(value, padded) ==
    LET _len == IF value.type = extended THEN Len(value.data) - 2 ELSE Len(value.data)
        _segment_type == BitOr(SegmentType_network, value.type)
    IN  IF BitAnd(value.type, mask_data_array) # 0
        THEN IF ~FitsUSINT(_len) THEN [exc |-> "DataError", bytes |-> <<>>]
             ELSE [exc |-> NoExc, bytes |-> <<_segment_type, _len>> \o value.data]
        ELSE [exc |-> NoExc, bytes |-> <<_segment_type>> \o value.data]

\* NetworkSegment._decode
NetworkSegment__decode(stream, padded) ==
    LET st == _decode_segment_type(SegmentType_network, stream)
        _type == BitAnd(st.value, Network_mask_type)
        size == Elementary_decode(USINT, st.rest)
        _len == IF _type = extended THEN size.value + 2 ELSE size.value
        one == Elementary_decode(USINT, st.rest)
    IN  IF st.exc # NoExc THEN Fail(st.exc)
        ELSE IF _type \notin _supported_network_segment_types THEN Fail("DataError")
        ELSE IF BitAnd(_type, mask_data_array) # 0
        THEN IF size.exc # NoExc \/ Len(Read(size.rest, _len)) # _len THEN Fail("DataError")
             ELSE Made(NetworkSegment___post_init__(_type, Read(size.rest, _len)),
                       AfterRead(size.rest, _len))
        ELSE IF one.exc # NoExc THEN Fail("DataError")
        ELSE Made(NetworkSegment___post_init__(_type, <<one.value>>), one.rest)

\* SymbolicSegment(symbol, ex_type).__post_init__ for a symbol that is a bytes, a
\* str or an instance of USINT, UINT or UDINT
SymbolicSegment___post_init__(symbol, ex_type) ==
    LET made(ex) == [exc |-> NoExc,
                     o |-> [cls |-> "SymbolicSegment", symbol |-> symbol, ex_type |-> ex]]
        refused == [exc |-> "DataError", o |-> NoSegment]
    IN  IF symbol.t = "bytes"
        THEN IF ex_type = None THEN refused
             ELSE IF BitAnd(ex_type, Symbolic_mask_format) = double_byte_chars
             THEN IF Len(symbol.b) % 2 # 0 THEN refused
                  ELSE made(BitOr(double_byte_chars, Len(symbol.b) \div 2))
             ELSE IF BitAnd(ex_type, Symbolic_mask_format) = triple_byte_chars
             THEN IF Len(symbol.b) % 3 # 0 THEN refused
                  ELSE made(BitOr(triple_byte_chars, Len(symbol.b) \div 3))
             ELSE made(ex_type)
        ELSE IF symbol.t = "str"
        THEN IF Len(symbol.b) > 31 THEN refused ELSE made(ex_type)
        ELSE IF symbol.t = "uint"
        THEN made(IF symbol.size = USINT.size THEN numeric_symbol_usint
                  ELSE IF symbol.size = UINT.size THEN numeric_symbol_uint
                  ELSE numeric_symbol_udint)
        ELSE made(ex_type)

\* SymbolicSegment._encode
SymbolicSegment__encode(value, padded) ==
    IF value.symbol.t = "str"
    THEN [exc |-> NoExc,
          bytes |-> <<BitOr(SegmentType_symbolic, Len(value.symbol.b))>> \o value.symbol.b]
    ELSE IF value.ex_type = None \/ ~FitsUSINT(value.ex_type)
    THEN [exc |-> "DataError", bytes |-> <<>>]
    ELSE [exc |-> NoExc,
          bytes |-> <<SegmentType_symbolic, value.ex_type>>
                    \o (IF value.symbol.t = "uint"
                        THEN pack(value.symbol.size, value.symbol.n)
                        ELSE value.symbol.b)]

\* SymbolicSegment._decode
SymbolicSegment__decode(stream, padded) ==
    LET st == Elementary_decode(USINT, stream)
        _type == BitAnd(st.value, mask_symbol_size)
        ex == Elementary_decode(USINT, st.rest)
        size == BitAnd(ex.value, mask_size)
        _format == BitAnd(ex.value, Symbolic_mask_format)
        chars == IF _format = double_byte_chars THEN size * 2 ELSE size * 3
        typ == IF ex.value = numeric_symbol_usint THEN USINT
               ELSE IF ex.value = numeric_symbol_uint THEN UINT ELSE UDINT
        number == Elementary_decode(typ, ex.rest)
    IN  IF st.exc # NoExc THEN Fail(st.exc)
        ELSE IF _type = 0
        THEN IF ex.exc # NoExc THEN Fail(ex.exc)
             ELSE IF _format \in {double_byte_chars, triple_byte_chars}
             THEN IF Read(ex.rest, chars) = <<>> THEN Fail("BufferEmptyError")
                  ELSE Made(SymbolicSegment___post_init__(PyBytes(Read(ex.rest, chars)),
                                                          ex.value),
                            AfterRead(ex.rest, chars))
             ELSE IF ex.value \in {numeric_symbol_usint, numeric_symbol_uint,
                                   numeric_symbol_udint}
             THEN IF number.exc # NoExc THEN Fail(number.exc)
                  ELSE Made(SymbolicSegment___post_init__(PyUInt(typ, number.value),
                                                          ex.value),
                            number.rest)
             ELSE Fail("DataError")
        ELSE IF st.rest = <<>> THEN Fail("BufferEmptyError")
        ELSE Made(SymbolicSegment___post_init__(PyStr(Read(st.rest, _type)), None),
                  AfterRead(st.rest, _type))

\* DataSegment(data).__post_init__ for a bytes or a str
DataSegment___post_init__(data) ==
    [exc |-> NoExc,
     o |-> [cls |-> "DataSegment", data |-> data,
            _type |-> IF data.t = "bytes" THEN simple ELSE ansi_extended]]

\* DataSegment._encode: the length is a USINT, of the 16-bit words of a simple
\* segment and of the characters of an ANSI extended symbol (a SHORT_STRING)
DataSegment__encode(value, padded) ==
    LET data == IF value._type = simple
                THEN <<Len(value.data.b) \div 2>> \o value.data.b
                ELSE <<Len(value.data.b)>> \o value.data.b
    IN  IF Len(value.data.b) > 255 THEN [exc |-> "DataError", bytes |-> <<>>]
        ELSE [exc |-> NoExc,
              bytes |-> <<BitOr(SegmentType_data, value._type)>> \o data
                        \o (IF Len(data) % 2 = 1 THEN <<0>> ELSE <<>>)]

\* CIPSegment._decode, which is the _decode of every class that defines none:
\* it looks at the segment type of the first byte without reading it and calls
\* decode of the subclass of that segment type. PortSegment, LogicalSegment,
\* NetworkSegment and SymbolicSegment decode the stream. DataSegment and the two
\* data type segments define no _decode: their decode is this function again on
\* the same stream, and so on until Python raises RecursionError, which
\* CIPSegment.decode raises as DataError. No class has the reserved segment type.
CIPSegment__decode(stream, padded) ==
    IF stream = <<>> THEN Fail("BufferEmptyError")
    ELSE CASE BitAnd(Head(stream), SegmentType_mask) = SegmentType_port ->
                 PortSegment__decode(stream, padded)
           [] BitAnd(Head(stream), SegmentType_mask) = SegmentType_logical ->
                 LogicalSegment__decode(stream, padded)
           [] BitAnd(Head(stream), SegmentType_mask) = SegmentType_network ->
                 NetworkSegment__decode(stream, padded)
           [] BitAnd(Head(stream), SegmentType_mask) = SegmentType_symbolic ->
                 SymbolicSegment__decode(stream, padded)
           [] OTHER -> Fail("DataError")

\* cls.encode(value, padded)
CIPSegment_encode(value, padded) ==
    CASE value.cls = "PortSegment" -> PortSegment__encode(value, padded)
      [] value.cls = "LogicalSegment" -> LogicalSegment__encode(value, padded)
      [] value.cls = "NetworkSegment" -> NetworkSegment__encode(value, padded)
      [] value.cls = "SymbolicSegment" -> SymbolicSegment__encode(value, padded)
      [] value.cls = "DataSegment" -> DataSegment__encode(value, padded)

\* cls.decode(buffer, padded): the _decode of the class, or the one it inherits
CIPSegment_decode(cls, buffer, padded) ==
    CASE cls = "PortSegment" -> PortSegment__decode(buffer, padded)
      [] cls = "LogicalSegment" -> LogicalSegment__decode(buffer, padded)
      [] cls = "NetworkSegment" -> NetworkSegment__decode(buffer, padded)
      [] cls = "SymbolicSegment" -> SymbolicSegment__decode(buffer, padded)
      [] cls = "DataSegment" -> CIPSegment__decode(buffer, padded)

\* a == b for two segments of one class: the dataclass compares the attributes
\* that are not declared compare=False
CIPSegment___eq__(a, b) ==
    /\ a.cls = b.cls
    /\ CASE a.cls = "PortSegment" -> a = b
         [] a.cls = "LogicalSegment" ->
               /\ a.type = b.type
               /\ PyEq(a.value, b.value)
               /\ a._value = b._value
               /\ a._format = b._format
         [] a.cls = "NetworkSegment" -> a = b
         [] a.cls = "SymbolicSegment" ->
               PyEq(a.symbol, b.symbol) /\ a.ex_type = b.ex_type
         [] a.cls = "DataSegment" -> PyEq(a.data, b.data) /\ a._type = b._type

\* The segments a program constructs. Ports below, at and above the mask of the
\* port identifier; link addresses of one byte and of more, as int and as bytes
PortIds == {1, 15, 16}
LinkAddresses == {PyInt(1), PyInt(256)} \cup {PyBytes(b) : b \in BytesUpTo(2)}
\* class id, instance id, service id and the reserved logical type; values of 8,
\* 16 and 32 bits
LogicalTypes == {0, type_instance_id, type_service_id, type_reserved}
LogicalValues == {PyInt(1), PyInt(256), PyInt(65536), PyBytes(<<1>>)}
\* a subtype with one byte of data and the two with a data array
NetworkTypes == {scheduled, safety, extended}
\* symbols: ASCII strings, numbers of the three types, double-byte characters
Symbols ==
    {PyStr([i \in 1..n |-> 65]) : n \in 0..2} \cup
    {PyUInt(typ, 1) : typ \in {USINT, UINT, UDINT}} \cup
    {PyBytes(b) : b \in BytesUpTo(2)}
ExTypes == {None, double_byte_chars}
DataValues ==
    {PyStr([i \in 1..n |-> 65]) : n \in 0..2} \cup {PyBytes(b) : b \in BytesUpTo(2)}

\* the segments that are constructed without an exception
PortSegments ==
    {PortSegment___post_init__(x[1], x[2]).o :
        x \in {y \in PortIds \X LinkAddresses :
                 PortSegment___post_init__(y[1], y[2]).exc = NoExc}}
LogicalSegments ==
    {LogicalSegment___post_init__(x[1], x[2]).o :
        x \in {y \in LogicalTypes \X LogicalValues :
                 LogicalSegment___post_init__(y[1], y[2]).exc = NoExc}}
NetworkSegments ==
    {NetworkSegment___post_init__(x[1], x[2]).o :
        x \in {y \in NetworkTypes \X BytesUpTo(2) :
                 NetworkSegment___post_init__(y[1], y[2]).exc = NoExc}}
SymbolicSegments ==
    {SymbolicSegment___post_init__(x[1], x[2]).o :
        x \in {y \in Symbols \X ExTypes :
                 SymbolicSegment___post_init__(y[1], y[2]).exc = NoExc}}
DataSegments ==
    {DataSegment___post_init__(x).o : x \in DataValues}

\* the program holds segment v and has not encoded it
Holds(v) ==
    segment = [v |-> v, stage |-> "new", padded |-> FALSE,
               enc |-> [exc |-> NoExc, bytes |-> <<>>], dec |-> Fail(NoExc)]

\* a program that holds one segment and takes no connection
SegmentInit ==
    /\ _connected = FALSE
    /\ _session_id = 0
    /\ _sock = "created"
    /\ connected_config = NoIds
    /\ transport_class = 0
    /\ _sequence_generator = [c \in Conns |-> cycle(SeqStop, SeqStart)]
    /\ fresh = [c \in Conns |-> FALSE]
    /\ child = FALSE
    /\ negotiated = Serials(NoIds)
    /\ last = [op |-> "init", conn |-> "parent", flag |-> "None", exc |-> NoExc,
               wire |-> <<>>, e1 |-> NoExchange, e2 |-> NoExchange, first |-> FALSE,
               pre |-> [connected |-> FALSE, session_id |-> 0, cfg |-> NoIds,
                        negotiated |-> Serials(NoIds)]]
    /\ root = NoRoot
    /\ mutation = NoMutation
    /\ \/ \E v \in PortSegments : Holds(v)
       \/ \E v \in LogicalSegments : Holds(v)
       \/ \E v \in NetworkSegments : Holds(v)
       \/ \E v \in SymbolicSegments : Holds(v)
       \/ \E v \in DataSegments : Holds(v)
    /\ epath = NoPath
    /\ receive = NoReceive
    /\ replaced = NoReplaced
    /\ decoding = NoDecoding
    /\ response = NoResponse

\* encoded = type(v).encode(v, padded)
SegmentEncode ==
    /\ segment.stage = "new"
    /\ \E padded \in BOOLEAN :
          segment' = [segment EXCEPT !.stage = "encoded", !.padded = padded,
                                     !.enc = CIPSegment_encode(segment.v, padded)]
    /\ UNCHANGED <<_connected, _session_id, _sock, connected_config, transport_class,
                   _sequence_generator, child, fresh, negotiated, last, root, mutation,
                   epath, receive, replaced, decoding, response>>

\* type(v).decode(encoded, padded)
SegmentDecode ==
    /\ segment.stage = "encoded"
    /\ segment.enc.exc = NoExc
    /\ segment' = [segment EXCEPT
                     !.stage = "decoded",
                     !.dec = CIPSegment_decode(segment.v.cls, segment.enc.bytes,
                                               segment.padded)]
    /\ UNCHANGED <<_connected, _session_id, _sock, connected_config, transport_class,
                   _sequence_generator, child, fresh, negotiated, last, root, mutation,
                   epath, receive, replaced, decoding, response>>

SegmentNext ==
    \/ SegmentEncode
    \/ SegmentDecode

SegmentSpec == SegmentInit /\ [][SegmentNext]_vars

\* C20: a segment of any of the five classes is encoded without an exception,
\* packed and padded, and decoding what it encodes to gives a segment equal to
\* it and leaves no byte unread
C20_SegmentRoundTrip ==
    /\ segment.stage = "encoded" => segment.enc.exc = NoExc
    /\ segment.stage = "decoded" =>
          /\ segment.dec.exc = NoExc
          /\ CIPSegment___eq__(segment.dec.o, segment.v)
          /\ segment.dec.rest = <<>>

----------------------------------------------------------------------------
\* EPATH (data_types/cip.py) and the Message Router request
\* (protocols/cip/msg_router_services.py)

\* the variables of the connection, which the data types leave alone
connVars == <<_connected, _session_id, _sock, connected_config, transport_class,
              _sequence_generator, child, fresh, negotiated, last>>

\* the connection objects of a program that makes no call on them: connected
\* and sock are EIPConnection._connected and what has happened to its socket
ConnectionAt(connected, sock) ==
    /\ _connected = connected
    /\ _session_id = 0
    /\ _sock = sock
    /\ connected_config = NoIds
    /\ transport_class = 0
    /\ _sequence_generator = [c \in Conns |-> cycle(SeqStop, SeqStart)]
    /\ fresh = [c \in Conns |-> FALSE]
    /\ child = FALSE
    /\ negotiated = Serials(NoIds)
    /\ last = [op |-> "init", conn |-> "parent", flag |-> "None", exc |-> NoExc,
               wire |-> <<>>, e1 |-> NoExchange, e2 |-> NoExchange, first |-> FALSE,
               pre |-> [connected |-> FALSE, session_id |-> 0, cfg |-> NoIds,
                        negotiated |-> Serials(NoIds)]]

\* a program that has made its connection objects and takes no connection
NoConnection == ConnectionAt(FALSE, "created")

\* segments of a path: 0..MaxSegments
MaxSegments == 2

type_class_id == 0
type_attribute_id == 16

\* the EPATH classes: their class variables padded, with_len and pad_len
PACKED_EPATH == [padded |-> FALSE, with_len |-> FALSE, pad_len |-> FALSE]
PADDED_EPATH == [padded |-> TRUE, with_len |-> FALSE, pad_len |-> FALSE]
PADDED_EPATH_LEN == [padded |-> TRUE, with_len |-> TRUE, pad_len |-> FALSE]
PADDED_EPATH_PAD_LEN == [padded |-> TRUE, with_len |-> TRUE, pad_len |-> TRUE]

RECURSIVE join_segments(_, _)
\* b"".join(segment.encode(segment, padded=cls.padded) for segment in segments):
\* the first exception of an encode ends it
join_segments(segments, padded) ==
    IF segments = <<>> THEN [exc |-> NoExc, bytes |-> <<>>]
    ELSE CHOOSE out \in
           {IF first.exc # NoExc THEN [exc |-> first.exc, bytes |-> <<>>]
            ELSE CHOOSE more \in
                   {[exc |-> others.exc, bytes |-> first.bytes \o others.bytes] :
                      others \in {join_segments(Tail(segments), padded)}} : TRUE :
              first \in {CIPSegment_encode(Head(segments), padded)}} : TRUE

\* EPATH._encode, under DataType.encode: with_len puts USINT.encode(len(segments))
\* before the segments, pad_len a zero byte after it
EPATH__encode(cls, segments) ==
    CHOOSE out \in
      {IF joined.exc # NoExc \/ (cls.with_len /\ Len(segments) > 255)
       THEN [exc |-> "DataError", bytes |-> <<>>]
       ELSE [exc |-> NoExc,
             bytes |-> (IF cls.with_len THEN pack(1, Len(segments)) ELSE <<>>) \o
                       (IF cls.with_len /\ cls.pad_len THEN <<0>> ELSE <<>>) \o
                       joined.bytes] :
         joined \in {join_segments(segments, cls.padded)}} : TRUE

\* MessageRouterRequest.build: the path of class, instance and, when one is
\* given, attribute
MessageRouterRequest_build(class_code, instance, attribute) ==
    <<LogicalSegment___post_init__(type_class_id, PyInt(class_code)).o,
      LogicalSegment___post_init__(type_instance_id, PyInt(instance)).o>> \o
    (IF attribute = None THEN <<>>
     ELSE <<LogicalSegment___post_init__(type_attribute_id, PyInt(attribute)).o>>)

\* bytes(MessageRouterRequest(service, path, data)): the encoded fields service
\* (USINT), path (PADDED_EPATH_LEN) and data, one after the other
MessageRouterRequest__encode(service, segments, data) ==
    CHOOSE out \in
      {IF p.exc # NoExc THEN p
       ELSE [exc |-> NoExc, bytes |-> pack(1, service) \o p.bytes \o data] :
         p \in {EPATH__encode(PADDED_EPATH_LEN, segments)}} : TRUE

\* the segments a program puts into a path: logical segments of class id and
\* instance id with values of 8, 16 and 32 bits, port segments with a link
\* address of one byte and with an extended one
PathSegments ==
    {s \in LogicalSegments :
        s.value.t = "int" /\ s.type \in {type_class_id, type_instance_id}} \cup
    {s \in PortSegments : s._port = 1 /\ s._link # <<>>}

Paths == UNION {[1..n -> PathSegments] : n \in 0..MaxSegments}

\* the paths MessageRouterRequest.build makes
BuiltPaths ==
    {MessageRouterRequest_build(c, i, a) :
        c \in {1, 256}, i \in {1, 256, 65536}, a \in {None, 1}}

Service_get_attribute_single == 14

\* a program that holds an EPATH, of one of the four classes, or the path of a
\* Message Router request
PathInit ==
    /\ NoConnection
    /\ root = NoRoot
    /\ mutation = NoMutation
    /\ segment = NoSegment
    /\ \/ \E cls \in {PACKED_EPATH, PADDED_EPATH, PADDED_EPATH_LEN, PADDED_EPATH_PAD_LEN} :
          \E segments \in Paths :
             epath = [cls |-> cls, segments |-> segments, stage |-> "new", at |-> 0,
                      enc |-> [exc |-> NoExc, bytes |-> <<>>]]
       \/ \E segments \in BuiltPaths :
             epath = [cls |-> PADDED_EPATH_LEN, segments |-> segments, stage |-> "built",
                      at |-> 0, enc |-> [exc |-> NoExc, bytes |-> <<>>]]
    /\ receive = NoReceive
    /\ replaced = NoReplaced
    /\ decoding = NoDecoding
    /\ response = NoResponse

\* bytes(path): at is the index of the first byte of the path in what is encoded
PathEncode ==
    /\ epath.stage = "new"
    /\ epath' = [epath EXCEPT !.stage = "encoded", !.at = 1,
                              !.enc = EPATH__encode(epath.cls, epath.segments)]
    /\ UNCHANGED <<connVars, root, mutation, segment, receive, replaced, decoding,
                   response>>

\* bytes(MessageRouterRequest.build(service, class_code, instance, attribute,
\* data)): the path follows the byte of the service
RequestEncode ==
    /\ epath.stage = "built"
    /\ \E data \in BytesUpTo(1) :
          epath' = [epath EXCEPT
                      !.stage = "encoded", !.at = 2,
                      !.enc = MessageRouterRequest__encode(Service_get_attribute_single,
                                                           epath.segments, data)]
    /\ UNCHANGED <<connVars, root, mutation, segment, receive, replaced, decoding,
                   response>>

PathNext ==
    \/ PathEncode
    \/ RequestEncode

PathSpec == PathInit /\ [][PathNext]_vars

\* the bytes that the encoded segments of the path take
SegmentBytes == join_segments(epath.segments, epath.cls.padded).bytes

\* C21: in what a length-prefixed EPATH encodes to, alone or as the path of a
\* Message Router request, the USINT before the segments is the number of 16-bit
\* words that the encoded segments take
C21_PathWordCount ==
    (epath.stage = "encoded" /\ epath.cls.with_len /\ epath.enc.exc = NoExc) =>
        2 * epath.enc.bytes[epath.at] = Len(SegmentBytes)

----------------------------------------------------------------------------
\* EIPConnection._recv and _recv_size, one call of sock.recv at a time
\* (protocols/ethernetip/connection.py)

\* the length field of a received header: 0..MaxLength
MaxLength == 2

\* EtherNetIPHeader.size: command, length, session, status, context, options
EtherNetIPHeader_size == 24

\* _recv has called _recv_size(EtherNetIPHeader.size) on a connected socket:
\* pc is where _recv is ("header" and "body" are the two calls of _recv_size,
\* inside the loop), size and recvd are the variables of _recv_size, chunk is
\* the length of what sock.recv returned last, eof tells that the peer has
\* closed the socket
RecvInit ==
    /\ ConnectionAt(TRUE, "connected")
    /\ root = NoRoot
    /\ mutation = NoMutation
    /\ segment = NoSegment
    /\ epath = NoPath
    /\ receive = [pc |-> "header", size |-> EtherNetIPHeader_size, recvd |-> 0,
                  chunk |-> None, eof |-> FALSE, exc |-> NoExc]
    /\ replaced = NoReplaced
    /\ decoding = NoDecoding
    /\ response = NoResponse

\* _recv_size has returned size bytes: after the header, _recv decodes it and
\* calls _recv_size(header.length), which returns at once when the length is 0;
\* after the body, _recv returns the response
Returned(r) ==
    IF r.pc = "body" THEN {[r EXCEPT !.pc = "done"]}
    ELSE {IF length = 0 THEN [r EXCEPT !.pc = "done", !.size = 0, !.recvd = 0]
          ELSE [r EXCEPT !.pc = "body", !.size = length, !.recvd = 0] :
             length \in 0..MaxLength}

\* one turn of the loop of _recv_size, lines 197-200: sock.recv(size - recvd)
\* returns n bytes, none when the peer has closed the socket; the chunk is
\* appended and counted, and the loop goes on while recvd < size
RecvChunk ==
    /\ receive.pc \in {"header", "body"}
    /\ receive.recvd < receive.size
    /\ \E n \in IF receive.eof THEN {0} ELSE 0..(receive.size - receive.recvd) :
       \E r \in {[receive EXCEPT !.recvd = @ + n, !.chunk = n, !.eof = (n = 0)]} :
          receive' \in IF r.recvd < r.size THEN {r} ELSE Returned(r)
    /\ UNCHANGED <<connVars, root, mutation, segment, epath, replaced, decoding,
                   response>>

\* sock.recv raises socket.error (a timeout, a reset): lines 203-207
RecvError ==
    /\ receive.pc \in {"header", "body"}
    /\ receive.recvd < receive.size
    /\ ~receive.eof
    /\ receive' = [receive EXCEPT !.pc = "raised", !.exc = "ConnectionError"]
    /\ UNCHANGED <<connVars, root, mutation, segment, epath, replaced, decoding,
                   response>>

RecvNext ==
    \/ RecvChunk
    \/ RecvError

RecvSpec == RecvInit /\ [][RecvNext]_vars

\* C22: when sock.recv has returned no bytes before the bytes asked for had
\* arrived, the receive has failed with an error and reads no more
C22_ZeroReadFails ==
    receive.chunk = 0 => receive.pc = "raised" /\ receive.exc # NoExc

----------------------------------------------------------------------------
\* A child of a struct that an assignment has replaced (data_types/_base.py)
\*
\* Struct.__setattr__ gives the new child its __parent_struct__ (lines 578-581)
\* and does nothing to the child that the attribute held: the program may still
\* hold that object, whose __parent_struct__ names the struct and the attribute.

\* no child has been replaced yet
NothingReplaced == [key |-> NoName, o |-> NoRoot, stage |-> "none", before |-> NoRoot]

\* the attributes of a struct that hold a struct or an array
ChildKeys(obj) ==
    {k \in DOMAIN obj.vals : MemberType(obj.cls, k).kind \in {"struct", "array"}}

\* a program that holds one struct with a child struct and a child array
ReplaceInit ==
    /\ NoConnection
    /\ root \in {r \in Roots : r.cls = "Root"}
    /\ mutation = NoMutation
    /\ segment = NoSegment
    /\ epath = NoPath
    /\ receive = NoReceive
    /\ replaced = NothingReplaced
    /\ decoding = NoDecoding
    /\ response = NoResponse

\* old = root.key; root.key = value, for an attribute that holds a struct or an
\* array: the program keeps old
Replace ==
    /\ replaced.stage = "none"
    /\ \E key \in ChildKeys(root) :
       \E value \in ValuesOf(root.cls, key) :
       \E r \in {Struct___setattr__(root, key, value)} :
          /\ root' = r.o
          /\ replaced' = [key |-> key, o |-> root.vals[key], stage |-> "held",
                          before |-> r.o]
          /\ mutation' = [op |-> "setattr", key |-> key, exc |-> r.exc]
    /\ UNCHANGED <<connVars, segment, epath, receive, decoding, response>>

\* the assignments a program makes on the object it kept: an attribute of a
\* struct, an element of an array
AssignmentsOn(typ, obj) ==
    IF typ.kind = "struct"
    THEN {[op |-> "setattr", key |-> k, value |-> v, item |-> 0] :
             k \in DOMAIN obj.vals, v \in Values}
    ELSE {[op |-> "setitem", key |-> NoName, value |-> v, item |-> i] :
             i \in 0..(Len(obj._array) - 1), v \in ElementsOf(typ.elem)}

\* old.x = value, or old[item] = value: the object runs its __setattr__ or
\* __setitem__ and then follows its __parent_struct__ (lines 583-585 and
\* 869-871), which makes the struct run __setattr__(key, old)
MutateReplaced ==
    /\ replaced.stage = "held"
    /\ \E how \in AssignmentsOn(MemberType(root.cls, replaced.key), replaced.o) :
       \E a \in {Assign(MemberType(root.cls, replaced.key), replaced.o, <<>>, how)} :
          /\ root' = IF a.notify /\ a.o.parent_struct
                     THEN Struct___setattr__(root, replaced.key, a.o).o
                     ELSE root
          /\ replaced' = [replaced EXCEPT !.o = a.o, !.stage = "mutated",
                                          !.before = root]
          /\ mutation' = [op |-> how.op, key |-> replaced.key, exc |-> a.exc]
    /\ UNCHANGED <<connVars, segment, epath, receive, decoding, response>>

ReplaceNext ==
    \/ Replace
    \/ MutateReplaced

ReplaceSpec == ReplaceInit /\ [][ReplaceNext]_vars

\* C23: an assignment on a child that was replaced leaves the attribute of the
\* struct that held it, and what the struct encodes to, as they were before
C23_ReplacedChildDetached ==
    replaced.stage = "mutated" =>
        /\ root.vals[replaced.key] = replaced.before.vals[replaced.key]
        /\ Struct__encode(root).bytes = Struct__encode(replaced.before).bytes

----------------------------------------------------------------------------
\* Port segments whose port identifier is the mask of the port identifier

\* the segment is a PortSegment that was made with port id 15: the identifier
\* fills the four bits and __post_init__ has set no extended port
PortIs15 ==
    /\ segment.v.cls = "PortSegment"
    /\ segment.v._port = mask_port_id
    /\ segment.v._ex_port = 0

\* C24: a PortSegment of port id 15 is encoded in the extended form, the four
\* bits all set and the port id in the UINT that follows the first byte, and
\* decoding it gives a segment of port 15
C24_Port15Extended ==
    PortIs15 =>
        /\ segment.stage = "encoded" =>
              /\ segment.enc.exc = NoExc
              /\ Len(segment.enc.bytes) >= 3
              /\ BitAnd(segment.enc.bytes[1], mask_port_id) = mask_port_id
              /\ UINT_decode(SubSeq(segment.enc.bytes, 2, 3)) = mask_port_id
        /\ segment.stage = "decoded" =>
              /\ segment.dec.exc = NoExc
              /\ segment.dec.o._port = mask_port_id
              /\ segment.dec.o._ex_port \in {0, mask_port_id}

----------------------------------------------------------------------------
\* Decoding an array of dynamic length: Array._decode_all, one turn of its loop
\* at a time (data_types/_base.py)

\* bytes of a buffer that is decoded: 0..MaxBuffer
MaxBuffer == 6
\* turns of the loop that are followed: 0..MaxTurns
MaxTurns == 8

\* BYTES[2], BYTES (of unlimited size, size is -1) and BYTES[USINT]
BYTES_2 == [kind |-> "bytes", size |-> 2, _int_type |-> FALSE]
BYTES == [kind |-> "bytes", size |-> -1, _int_type |-> FALSE]
BYTES_USINT == [kind |-> "bytes", size |-> -1, _int_type |-> TRUE]

\* stream.read(size): all that is left when size is negative
stream_read(stream, size) ==
    IF size < 0 \/ size > Len(stream) THEN stream ELSE SubSeq(stream, 1, size)

\* BYTES._decode under DataType.decode: the size is decoded when the type has
\* an _int_type; a read that returns nothing gives b"", as a size of 0 does;
\* BYTES.__new__ raises DataError when the type has a size and the data another
BYTES__decode(typ, stream) ==
    CHOOSE out \in
      {IF size.exc # NoExc THEN [exc |-> size.exc, value |-> <<>>, rest |-> size.rest]
       ELSE CHOOSE made \in
              {IF typ.size # -1 /\ Len(data) # typ.size
               THEN [exc |-> "DataError", value |-> <<>>, rest |-> <<>>]
               ELSE [exc |-> NoExc, value |-> data,
                     rest |-> SubSeq(size.rest, Len(data) + 1, Len(size.rest))] :
                 data \in {IF size.value = 0 THEN <<>>
                           ELSE stream_read(size.rest, size.value)}} : TRUE :
         size \in {IF typ._int_type THEN Elementary_decode(USINT, stream)
                   ELSE [exc |-> NoExc, value |-> typ.size, rest |-> stream]}} : TRUE

RECURSIVE decode_members_from(_, _, _, _)
\* the loop of Struct._decode, as decode_members, with the stream it leaves
decode_members_from(cls, names, stream, values) ==
    IF names = <<>> THEN [exc |-> NoExc, values |-> values, rest |-> stream]
    ELSE CHOOSE out \in
           {IF r.exc # NoExc THEN [exc |-> r.exc, values |-> values, rest |-> r.rest]
            ELSE decode_members_from(cls, Tail(names), r.rest,
                                     With(values, Head(names), r.value)) :
              r \in {IF LenRef(cls, Head(names)) # NoName
                     THEN Array_decode(MemberType(cls, Head(names)).elem,
                                       values[LenRef(cls, Head(names))], stream)
                     ELSE IF /\ ConditionalOn(cls, Head(names)) # NoName
                             /\ ~_default_conditional_callable(
                                    values[ConditionalOn(cls, Head(names))])
                     THEN [exc |-> NoExc, value |-> None, rest |-> stream]
                     ELSE Elementary_decode(MemberType(cls, Head(names)), stream)}} : TRUE

\* typ.decode(stream) of an element type: [exc, value, rest]
Element_decode(typ, stream) ==
    CASE typ.kind = "int" -> Elementary_decode(typ, stream)
      [] typ.kind = "bytes" -> BYTES__decode(typ, stream)
      [] typ.kind = "struct" ->
            CHOOSE out \in
              {IF d.exc # NoExc THEN [exc |-> d.exc, value |-> NoRoot, rest |-> d.rest]
               ELSE [exc |-> NoExc, value |-> New(typ.cls, InitVars(typ.cls, d.values)),
                     rest |-> d.rest] :
                 d \in {decode_members_from(typ.cls, __struct_members__(typ.cls),
                                            stream, <<>>)}} : TRUE

\* Array[elem, ...].decode(buffer) has entered the loop of _decode_all: stream
\* is what no element has been decoded from yet, _array the elements so far
Decoding(elem, buffer) ==
    decoding = [elem |-> elem, buffer |-> buffer, stream |-> buffer, _array |-> <<>>,
                pc |-> "loop", exc |-> NoExc]

ArrayInit ==
    /\ NoConnection
    /\ root = NoRoot
    /\ mutation = NoMutation
    /\ segment = NoSegment
    /\ epath = NoPath
    /\ receive = NoReceive
    /\ replaced = NoReplaced
    /\ \E buffer \in BytesUpTo(MaxBuffer) :
          \/ \E elem \in {USINT, UINT} : Decoding(elem, buffer)
          \/ \E elem \in {BYTES_2, BYTES, BYTES_USINT} : Decoding(elem, buffer)
          \/ Decoding(StructT("Opt"), buffer)
    /\ response = NoResponse

\* one turn of the loop, lines 898-904: the element type decodes the stream; the
\* value is appended, BufferEmptyError ends the loop and _decode_all returns,
\* any other exception leaves decode as DataError (lines 923-929)
DecodeTurn ==
    /\ decoding.pc = "loop"
    /\ Len(decoding._array) < MaxTurns
    /\ \E r \in {Element_decode(decoding.elem, decoding.stream)} :
          decoding' =
             CASE r.exc = NoExc ->
                     [decoding EXCEPT !._array = Append(@, r.value), !.stream = r.rest]
               [] r.exc = "BufferEmptyError" -> [decoding EXCEPT !.pc = "done"]
               [] OTHER -> [decoding EXCEPT !.pc = "raised", !.exc = "DataError"]
    /\ UNCHANGED <<connVars, root, mutation, segment, epath, receive, replaced,
                   response>>

ArrayNext ==
    \/ DecodeTurn

ArraySpec == ArrayInit /\ [][ArrayNext]_vars

\* the buffer holds a whole number of encoded elements of a type whose elements
\* all encode to size bytes
HoldsWholeElements ==
    /\ decoding.elem.kind \in {"int", "bytes"}
    /\ decoding.elem.size > 0
    /\ Len(decoding.buffer) % decoding.elem.size = 0

\* C25: the loop ends once the stream is empty, whatever the element type, and
\* a buffer of n encoded elements is decoded without an exception into n
\* elements, nothing of it left
C25_DecodeAllTerminates ==
    /\ [][(decoding.pc = "loop" /\ decoding.stream = <<>>) => decoding'.pc # "loop"]_vars
    /\ [](HoldsWholeElements =>
            /\ decoding.pc # "raised"
            /\ decoding.pc = "done" =>
                  /\ Len(decoding._array) * decoding.elem.size = Len(decoding.buffer)
                  /\ decoding.stream = <<>>)

\* C30: when the loop over an array of structs has ended without an exception,
\* every byte of the buffer was decoded into an element: no element was begun
\* and given up at the end of the buffer
C30_NoSilentDiscard ==
    (decoding.elem.kind = "struct" /\ decoding.pc = "done") => decoding.stream = <<>>

----------------------------------------------------------------------------
\* The status message of a Message Router response
\* (protocols/cip/msg_router_services.py, protocols/cip/cip_object.py)

\* cls.segment_type, the class variable of the class of segment x
segment_type(x) ==
    CASE x.cls = "PortSegment" -> SegmentType_port
      [] x.cls = "LogicalSegment" -> SegmentType_logical
      [] x.cls = "NetworkSegment" -> SegmentType_network
      [] x.cls = "SymbolicSegment" -> SegmentType_symbolic
      [] x.cls = "DataSegment" -> SegmentType_data

\* CIPObject.__cip_objects__.get(code, CIPObject): the classes of the object
\* library register themselves under their class code (__init_subclass__)
__cip_objects__(code) ==
    CASE code = 1 -> "Identity"
      [] code = 2 -> "MessageRouter"
      [] code = 6 -> "ConnectionManager"
      [] code = 244 -> "Port"
      [] OTHER -> "CIPObject"

\* cip_object_from_path(path): the generator yields x.value of the segments
\* whose segment_type equals LogicalSegmentType.type_class_id, and next() takes
\* the first; a segment without an attribute `value` raises AttributeError
cip_object_from_path(segments) ==
    CHOOSE out \in
      {IF found = {} THEN [exc |-> NoExc, obj |-> "CIPObject"]
       ELSE CHOOSE got \in
              {IF x.cls # "LogicalSegment" THEN [exc |-> "AttributeError", obj |-> "none"]
               ELSE IF x.value.t = "int" /\ x.value.n = 0
               THEN [exc |-> NoExc, obj |-> "CIPObject"]
               ELSE IF x.value.t # "int" THEN [exc |-> NoExc, obj |-> "CIPObject"]
               ELSE [exc |-> NoExc, obj |-> __cip_objects__(x.value.n)] :
                 x \in {segments[CHOOSE i \in found : \A j \in found : i <= j]}} : TRUE :
         found \in {{i \in 1..Len(segments) :
                       segment_type(segments[i]) = type_class_id}}} : TRUE

\* MsgRouterResponseParser.parse, as far as the status message goes: tables is
\* the class whose get_status_messages builds the message, "none" when the
\* general status is one of success_statuses and the message is "Success"
MsgRouterResponseParser_parse(general_status, segments) ==
    IF general_status \in {SUCCESS} THEN [exc |-> NoExc, tables |-> "none"]
    ELSE CHOOSE out \in
           {[exc |-> r.exc, tables |-> r.obj] :
              r \in {cip_object_from_path(segments)}} : TRUE

\* the general statuses of a response: success, connection failure, service not
\* supported
GeneralStatuses == {0, 1, 8}

\* the request paths: those MessageRouterRequest.build makes for a class that
\* is registered and for one that is not, and the paths of the EPATH model
RequestPaths ==
    {MessageRouterRequest_build(c, 1, a) : c \in {1, 3, 6}, a \in {None, 1}} \cup Paths

\* a program that holds a request and the response to it
StatusInit ==
    /\ NoConnection
    /\ root = NoRoot
    /\ mutation = NoMutation
    /\ segment = NoSegment
    /\ epath = NoPath
    /\ receive = NoReceive
    /\ replaced = NoReplaced
    /\ decoding = NoDecoding
    /\ \E segments \in RequestPaths, general_status \in GeneralStatuses :
          response = [path |-> segments, general_status |-> general_status,
                      stage |-> "received", exc |-> NoExc, tables |-> "none"]

\* request.response_parser.parse(data, request)
Parse ==
    /\ response.stage = "received"
    /\ \E r \in {MsgRouterResponseParser_parse(response.general_status, response.path)} :
          response' = [response EXCEPT !.stage = "parsed", !.exc = r.exc,
                                       !.tables = r.tables]
    /\ UNCHANGED <<connVars, root, mutation, segment, epath, receive, replaced,
                   decoding>>

StatusNext ==
    \/ Parse

StatusSpec == StatusInit /\ [][StatusNext]_vars

\* the logical segments of type class id in the path, by their index
ClassIdSegments ==
    {i \in 1..Len(response.path) :
        /\ response.path[i].cls = "LogicalSegment"
        /\ response.path[i].type = type_class_id}

\* the class registered under the class code of the first of them, CIPObject
\* when there is none or none is registered
RegisteredObject ==
    IF ClassIdSegments = {} THEN "CIPObject"
    ELSE __cip_objects__(
           response.path[CHOOSE i \in ClassIdSegments :
                            \A j \in ClassIdSegments : i <= j].value.n)

\* C26: for a general status that is no success, the status message is built
\* from the tables of the class registered under the class code of the first
\* class id segment of the request path, from CIPObject's when there is none
C26_StatusTables ==
    (response.stage = "parsed" /\ response.general_status \notin {SUCCESS}) =>
        /\ response.exc = NoExc
        /\ response.tables = RegisteredObject

----------------------------------------------------------------------------
\* The socket, the session and the shared ConnectedConfig across calls

\* C27: a connection holds a single TCP socket: a connect() that gets past the
\* "already connected" guard installs a new socket (_create_socket), and it
\* never does so while the socket it connected before is still open.
C27_SingleSocket ==
    [][(last'.op = "connect" /\ ~CIP_connected(State)) => _sock # "connected"]_vars

\* C28: cip_connected is true only after a Forward Open on the current session:
\* when connect() has just returned, the freshly registered connection does
\* not report CIP-connected, whatever connection id an earlier session left.
C28_FreshSessionNotCipConnected ==
    (last.op = "connect" /\ last.exc = NoExc) => ~cip_connected(State)

\* C29: a forward_open() or forward_close() made through the temporary-route
\* child leaves the parent's connection ids, serials and cip_connected as they
\* were before the call.
C29_ChildKeepsParentIds ==
    (last.conn = "child" /\ last.op \in {"forward_open", "forward_close"}) =>
        /\ connected_config = last.pre.cfg
        /\ cip_connected(State) = (last.pre.connected /\ last.pre.cfg.o2t # 0)

====
